---- MODULE Spec2Model ----
(***************************************************************************)
(* Model of occ_new_listings.py: the discovery chain that turns the OCC    *)
(* entry page into a CSV link, the CSV parse/dedup loop, and the report.   *)
(*                                                                         *)
(* A str is the tuple of its code points, so strip, upper, lower, isdigit, *)
(* int, strptime, the csv reader, the page pattern and urllib.parse are    *)
(* computed character by character over Unicode (tables of Unicode 14, as  *)
(* in Python 3.11). A decoded JSON document is a tree of tagged values. A  *)
(* call yields Ok(value) or Raised(exception class, message).              *)
(*                                                                         *)
(* Four specifications share the variables:                                *)
(*   Spec      one run of main() with its five requests,                   *)
(*   SpecCsv   the row loop of parse_csv, one record per step,             *)
(*   SpecYear  the year selection of determine_target_year,                *)
(*   SpecLink  the entry search of fetch_month_link.                       *)
(***************************************************************************)
EXTENDS Integers, Sequences, FiniteSets, TLC

VARIABLES
    \* one run of main()
    pc, now, requests, config_url, config, years_url, reports_url, target_year,
    query_params, today_est, csv_url, stdout, stderr, exit_code,
    \* the row loop of parse_csv
    csv_pc, today, unread, fieldnames, rows, dedup,
    \* the year selection of determine_target_year
    year_strings, current_year, year_out,
    \* the entry search of fetch_month_link
    entries, month_slug, link_out

run_vars == <<pc, now, requests, config_url, config, years_url, reports_url,
              target_year, query_params, today_est, csv_url, stdout, stderr,
              exit_code>>
csv_vars == <<csv_pc, today, unread, fieldnames, rows, dedup>>
year_vars == <<year_strings, current_year, year_out>>
link_vars == <<entries, month_slug, link_out>>
vars == <<run_vars, csv_vars, year_vars, link_vars>>

----------------------------------------------------------------------------
\* Bounds of the model.

\* lines after the header in a CSV document (SpecCsv)
MaxRows == 3
\* items of the years document (SpecYear)
MaxYears == 3
\* items of the report list (SpecLink)
MaxEntries == 2
\* items of the configuration's query template (Spec)
MaxQuery == 2

\* all sequences over S of length at most n
RECURSIVE SeqsUpTo(_, _)
SeqsUpTo(S, n) ==
    IF n = 0 THEN {<<>>}
    ELSE LET shorter == SeqsUpTo(S, n - 1)
         IN  shorter \cup {Append(q, x) : q \in shorter, x \in S}

----------------------------------------------------------------------------
\* Character tables of the interpreter's str methods (Unicode 14.0.0).
\* A character is its code point; a range is <<first, last>>.

\* str.isspace: the characters str.strip() removes
SpaceRanges ==
    {<<9, 13>>, <<28, 32>>, <<133, 133>>, <<160, 160>>, <<5760, 5760>>, <<8192, 8202>>,
     <<8232, 8233>>, <<8239, 8239>>, <<8287, 8287>>, <<12288, 12288>>}

\* str.isdigit
DigitRanges ==
    {<<48, 57>>, <<178, 179>>, <<185, 185>>, <<1632, 1641>>, <<1776, 1785>>, <<1984, 1993>>,
     <<2406, 2415>>, <<2534, 2543>>, <<2662, 2671>>, <<2790, 2799>>, <<2918, 2927>>, <<3046, 3055>>,
     <<3174, 3183>>, <<3302, 3311>>, <<3430, 3439>>, <<3558, 3567>>, <<3664, 3673>>, <<3792, 3801>>,
     <<3872, 3881>>, <<4160, 4169>>, <<4240, 4249>>, <<4969, 4977>>, <<6112, 6121>>, <<6160, 6169>>,
     <<6470, 6479>>, <<6608, 6618>>, <<6784, 6793>>, <<6800, 6809>>, <<6992, 7001>>, <<7088, 7097>>,
     <<7232, 7241>>, <<7248, 7257>>, <<8304, 8304>>, <<8308, 8313>>, <<8320, 8329>>, <<9312, 9320>>,
     <<9332, 9340>>, <<9352, 9360>>, <<9450, 9450>>, <<9461, 9469>>, <<9471, 9471>>, <<10102, 10110>>,
     <<10112, 10120>>, <<10122, 10130>>, <<42528, 42537>>, <<43216, 43225>>, <<43264, 43273>>, <<43472, 43481>>,
     <<43504, 43513>>, <<43600, 43609>>, <<44016, 44025>>, <<65296, 65305>>, <<66720, 66729>>, <<68160, 68163>>,
     <<68912, 68921>>, <<69216, 69224>>, <<69714, 69722>>, <<69734, 69743>>, <<69872, 69881>>, <<69942, 69951>>,
     <<70096, 70105>>, <<70384, 70393>>, <<70736, 70745>>, <<70864, 70873>>, <<71248, 71257>>, <<71360, 71369>>,
     <<71472, 71481>>, <<71904, 71913>>, <<72016, 72025>>, <<72784, 72793>>, <<73040, 73049>>, <<73120, 73129>>,
     <<92768, 92777>>, <<92864, 92873>>, <<93008, 93017>>, <<120782, 120831>>, <<123200, 123209>>, <<123632, 123641>>,
     <<125264, 125273>>, <<127232, 127242>>, <<130032, 130041>>}

\* str.isdecimal, the \d of a str pattern and the digits int() accepts;
\* every range is made of runs of ten that start at a zero
DecimalRanges ==
    {<<48, 57>>, <<1632, 1641>>, <<1776, 1785>>, <<1984, 1993>>, <<2406, 2415>>, <<2534, 2543>>,
     <<2662, 2671>>, <<2790, 2799>>, <<2918, 2927>>, <<3046, 3055>>, <<3174, 3183>>, <<3302, 3311>>,
     <<3430, 3439>>, <<3558, 3567>>, <<3664, 3673>>, <<3792, 3801>>, <<3872, 3881>>, <<4160, 4169>>,
     <<4240, 4249>>, <<6112, 6121>>, <<6160, 6169>>, <<6470, 6479>>, <<6608, 6617>>, <<6784, 6793>>,
     <<6800, 6809>>, <<6992, 7001>>, <<7088, 7097>>, <<7232, 7241>>, <<7248, 7257>>, <<42528, 42537>>,
     <<43216, 43225>>, <<43264, 43273>>, <<43472, 43481>>, <<43504, 43513>>, <<43600, 43609>>, <<44016, 44025>>,
     <<65296, 65305>>, <<66720, 66729>>, <<68912, 68921>>, <<69734, 69743>>, <<69872, 69881>>, <<69942, 69951>>,
     <<70096, 70105>>, <<70384, 70393>>, <<70736, 70745>>, <<70864, 70873>>, <<71248, 71257>>, <<71360, 71369>>,
     <<71472, 71481>>, <<71904, 71913>>, <<72016, 72025>>, <<72784, 72793>>, <<73040, 73049>>, <<73120, 73129>>,
     <<92768, 92777>>, <<92864, 92873>>, <<93008, 93017>>, <<120782, 120831>>, <<123200, 123209>>, <<123632, 123641>>,
     <<125264, 125273>>, <<130032, 130041>>}

\* str.upper, characters with a one-character result: <<first, last, step, offset>>
UpperRuns ==
    {<<97, 122, 1, -32>>, <<181, 181, 1, 743>>, <<224, 246, 1, -32>>, <<248, 254, 1, -32>>, <<255, 255, 1, 121>>,
     <<257, 303, 2, -1>>, <<305, 305, 1, -232>>, <<307, 311, 2, -1>>, <<314, 328, 2, -1>>, <<331, 375, 2, -1>>,
     <<378, 382, 2, -1>>, <<383, 383, 1, -300>>, <<384, 384, 1, 195>>, <<387, 389, 2, -1>>, <<392, 392, 1, -1>>,
     <<396, 396, 1, -1>>, <<402, 402, 1, -1>>, <<405, 405, 1, 97>>, <<409, 409, 1, -1>>, <<410, 410, 1, 163>>,
     <<414, 414, 1, 130>>, <<417, 421, 2, -1>>, <<424, 424, 1, -1>>, <<429, 429, 1, -1>>, <<432, 432, 1, -1>>,
     <<436, 438, 2, -1>>, <<441, 441, 1, -1>>, <<445, 445, 1, -1>>, <<447, 447, 1, 56>>, <<453, 453, 1, -1>>,
     <<454, 454, 1, -2>>, <<456, 456, 1, -1>>, <<457, 457, 1, -2>>, <<459, 459, 1, -1>>, <<460, 460, 1, -2>>,
     <<462, 476, 2, -1>>, <<477, 477, 1, -79>>, <<479, 495, 2, -1>>, <<498, 498, 1, -1>>, <<499, 499, 1, -2>>,
     <<501, 501, 1, -1>>, <<505, 543, 2, -1>>, <<547, 563, 2, -1>>, <<572, 572, 1, -1>>, <<575, 576, 1, 10815>>,
     <<578, 578, 1, -1>>, <<583, 591, 2, -1>>, <<592, 592, 1, 10783>>, <<593, 593, 1, 10780>>, <<594, 594, 1, 10782>>,
     <<595, 595, 1, -210>>, <<596, 596, 1, -206>>, <<598, 599, 1, -205>>, <<601, 601, 1, -202>>, <<603, 603, 1, -203>>,
     <<604, 604, 1, 42319>>, <<608, 608, 1, -205>>, <<609, 609, 1, 42315>>, <<611, 611, 1, -207>>, <<613, 613, 1, 42280>>,
     <<614, 614, 1, 42308>>, <<616, 616, 1, -209>>, <<617, 617, 1, -211>>, <<618, 618, 1, 42308>>, <<619, 619, 1, 10743>>,
     <<620, 620, 1, 42305>>, <<623, 623, 1, -211>>, <<625, 625, 1, 10749>>, <<626, 626, 1, -213>>, <<629, 629, 1, -214>>,
     <<637, 637, 1, 10727>>, <<640, 640, 1, -218>>, <<642, 642, 1, 42307>>, <<643, 643, 1, -218>>, <<647, 647, 1, 42282>>,
     <<648, 648, 1, -218>>, <<649, 649, 1, -69>>, <<650, 651, 1, -217>>, <<652, 652, 1, -71>>, <<658, 658, 1, -219>>,
     <<669, 669, 1, 42261>>, <<670, 670, 1, 42258>>, <<837, 837, 1, 84>>, <<881, 883, 2, -1>>, <<887, 887, 1, -1>>,
     <<891, 893, 1, 130>>, <<940, 940, 1, -38>>, <<941, 943, 1, -37>>, <<945, 961, 1, -32>>, <<962, 962, 1, -31>>,
     <<963, 971, 1, -32>>, <<972, 972, 1, -64>>, <<973, 974, 1, -63>>, <<976, 976, 1, -62>>, <<977, 977, 1, -57>>,
     <<981, 981, 1, -47>>, <<982, 982, 1, -54>>, <<983, 983, 1, -8>>, <<985, 1007, 2, -1>>, <<1008, 1008, 1, -86>>,
     <<1009, 1009, 1, -80>>, <<1010, 1010, 1, 7>>, <<1011, 1011, 1, -116>>, <<1013, 1013, 1, -96>>, <<1016, 1016, 1, -1>>,
     <<1019, 1019, 1, -1>>, <<1072, 1103, 1, -32>>, <<1104, 1119, 1, -80>>, <<1121, 1153, 2, -1>>, <<1163, 1215, 2, -1>>,
     <<1218, 1230, 2, -1>>, <<1231, 1231, 1, -15>>, <<1233, 1327, 2, -1>>, <<1377, 1414, 1, -48>>, <<4304, 4346, 1, 3008>>,
     <<4349, 4351, 1, 3008>>, <<5112, 5117, 1, -8>>, <<7296, 7296, 1, -6254>>, <<7297, 7297, 1, -6253>>, <<7298, 7298, 1, -6244>>,
     <<7299, 7300, 1, -6242>>, <<7301, 7301, 1, -6243>>, <<7302, 7302, 1, -6236>>, <<7303, 7303, 1, -6181>>, <<7304, 7304, 1, 35266>>,
     <<7545, 7545, 1, 35332>>, <<7549, 7549, 1, 3814>>, <<7566, 7566, 1, 35384>>, <<7681, 7829, 2, -1>>, <<7835, 7835, 1, -59>>,
     <<7841, 7935, 2, -1>>, <<7936, 7943, 1, 8>>, <<7952, 7957, 1, 8>>, <<7968, 7975, 1, 8>>, <<7984, 7991, 1, 8>>,
     <<8000, 8005, 1, 8>>, <<8017, 8023, 2, 8>>, <<8032, 8039, 1, 8>>, <<8048, 8049, 1, 74>>, <<8050, 8053, 1, 86>>,
     <<8054, 8055, 1, 100>>, <<8056, 8057, 1, 128>>, <<8058, 8059, 1, 112>>, <<8060, 8061, 1, 126>>, <<8112, 8113, 1, 8>>,
     <<8126, 8126, 1, -7205>>, <<8144, 8145, 1, 8>>, <<8160, 8161, 1, 8>>, <<8165, 8165, 1, 7>>, <<8526, 8526, 1, -28>>,
     <<8560, 8575, 1, -16>>, <<8580, 8580, 1, -1>>, <<9424, 9449, 1, -26>>, <<11312, 11359, 1, -48>>, <<11361, 11361, 1, -1>>,
     <<11365, 11365, 1, -10795>>, <<11366, 11366, 1, -10792>>, <<11368, 11372, 2, -1>>, <<11379, 11379, 1, -1>>, <<11382, 11382, 1, -1>>,
     <<11393, 11491, 2, -1>>, <<11500, 11502, 2, -1>>, <<11507, 11507, 1, -1>>, <<11520, 11557, 1, -7264>>, <<11559, 11559, 1, -7264>>,
     <<11565, 11565, 1, -7264>>, <<42561, 42605, 2, -1>>, <<42625, 42651, 2, -1>>, <<42787, 42799, 2, -1>>, <<42803, 42863, 2, -1>>,
     <<42874, 42876, 2, -1>>, <<42879, 42887, 2, -1>>, <<42892, 42892, 1, -1>>, <<42897, 42899, 2, -1>>, <<42900, 42900, 1, 48>>,
     <<42903, 42921, 2, -1>>, <<42933, 42947, 2, -1>>, <<42952, 42954, 2, -1>>, <<42961, 42961, 1, -1>>, <<42967, 42969, 2, -1>>,
     <<42998, 42998, 1, -1>>, <<43859, 43859, 1, -928>>, <<43888, 43967, 1, -38864>>, <<65345, 65370, 1, -32>>, <<66600, 66639, 1, -40>>,
     <<66776, 66811, 1, -40>>, <<66967, 66977, 1, -39>>, <<66979, 66993, 1, -39>>, <<66995, 67001, 1, -39>>, <<67003, 67004, 1, -39>>,
     <<68800, 68850, 1, -64>>, <<71872, 71903, 1, -32>>, <<93792, 93823, 1, -32>>, <<125218, 125251, 1, -34>>}

\* str.upper, characters with a longer result
UpperSpecial ==
    {<<223, <<83, 83>>>>, <<329, <<700, 78>>>>, <<496, <<74, 780>>>>, <<912, <<921, 776, 769>>>>,
     <<944, <<933, 776, 769>>>>, <<1415, <<1333, 1362>>>>, <<7830, <<72, 817>>>>, <<7831, <<84, 776>>>>,
     <<7832, <<87, 778>>>>, <<7833, <<89, 778>>>>, <<7834, <<65, 702>>>>, <<8016, <<933, 787>>>>,
     <<8018, <<933, 787, 768>>>>, <<8020, <<933, 787, 769>>>>, <<8022, <<933, 787, 834>>>>, <<8064, <<7944, 921>>>>,
     <<8065, <<7945, 921>>>>, <<8066, <<7946, 921>>>>, <<8067, <<7947, 921>>>>, <<8068, <<7948, 921>>>>,
     <<8069, <<7949, 921>>>>, <<8070, <<7950, 921>>>>, <<8071, <<7951, 921>>>>, <<8072, <<7944, 921>>>>,
     <<8073, <<7945, 921>>>>, <<8074, <<7946, 921>>>>, <<8075, <<7947, 921>>>>, <<8076, <<7948, 921>>>>,
     <<8077, <<7949, 921>>>>, <<8078, <<7950, 921>>>>, <<8079, <<7951, 921>>>>, <<8080, <<7976, 921>>>>,
     <<8081, <<7977, 921>>>>, <<8082, <<7978, 921>>>>, <<8083, <<7979, 921>>>>, <<8084, <<7980, 921>>>>,
     <<8085, <<7981, 921>>>>, <<8086, <<7982, 921>>>>, <<8087, <<7983, 921>>>>, <<8088, <<7976, 921>>>>,
     <<8089, <<7977, 921>>>>, <<8090, <<7978, 921>>>>, <<8091, <<7979, 921>>>>, <<8092, <<7980, 921>>>>,
     <<8093, <<7981, 921>>>>, <<8094, <<7982, 921>>>>, <<8095, <<7983, 921>>>>, <<8096, <<8040, 921>>>>,
     <<8097, <<8041, 921>>>>, <<8098, <<8042, 921>>>>, <<8099, <<8043, 921>>>>, <<8100, <<8044, 921>>>>,
     <<8101, <<8045, 921>>>>, <<8102, <<8046, 921>>>>, <<8103, <<8047, 921>>>>, <<8104, <<8040, 921>>>>,
     <<8105, <<8041, 921>>>>, <<8106, <<8042, 921>>>>, <<8107, <<8043, 921>>>>, <<8108, <<8044, 921>>>>,
     <<8109, <<8045, 921>>>>, <<8110, <<8046, 921>>>>, <<8111, <<8047, 921>>>>, <<8114, <<8122, 921>>>>,
     <<8115, <<913, 921>>>>, <<8116, <<902, 921>>>>, <<8118, <<913, 834>>>>, <<8119, <<913, 834, 921>>>>,
     <<8124, <<913, 921>>>>, <<8130, <<8138, 921>>>>, <<8131, <<919, 921>>>>, <<8132, <<905, 921>>>>,
     <<8134, <<919, 834>>>>, <<8135, <<919, 834, 921>>>>, <<8140, <<919, 921>>>>, <<8146, <<921, 776, 768>>>>,
     <<8147, <<921, 776, 769>>>>, <<8150, <<921, 834>>>>, <<8151, <<921, 776, 834>>>>, <<8162, <<933, 776, 768>>>>,
     <<8163, <<933, 776, 769>>>>, <<8164, <<929, 787>>>>, <<8166, <<933, 834>>>>, <<8167, <<933, 776, 834>>>>,
     <<8178, <<8186, 921>>>>, <<8179, <<937, 921>>>>, <<8180, <<911, 921>>>>, <<8182, <<937, 834>>>>,
     <<8183, <<937, 834, 921>>>>, <<8188, <<937, 921>>>>, <<64256, <<70, 70>>>>, <<64257, <<70, 73>>>>,
     <<64258, <<70, 76>>>>, <<64259, <<70, 70, 73>>>>, <<64260, <<70, 70, 76>>>>, <<64261, <<83, 84>>>>,
     <<64262, <<83, 84>>>>, <<64275, <<1348, 1350>>>>, <<64276, <<1348, 1333>>>>, <<64277, <<1348, 1339>>>>,
     <<64278, <<1358, 1350>>>>, <<64279, <<1348, 1341>>>>}

\* str.lower, characters with a one-character result: <<first, last, step, offset>>
LowerRuns ==
    {<<65, 90, 1, 32>>, <<192, 214, 1, 32>>, <<216, 222, 1, 32>>, <<256, 302, 2, 1>>, <<306, 310, 2, 1>>,
     <<313, 327, 2, 1>>, <<330, 374, 2, 1>>, <<376, 376, 1, -121>>, <<377, 381, 2, 1>>, <<385, 385, 1, 210>>,
     <<386, 388, 2, 1>>, <<390, 390, 1, 206>>, <<391, 391, 1, 1>>, <<393, 394, 1, 205>>, <<395, 395, 1, 1>>,
     <<398, 398, 1, 79>>, <<399, 399, 1, 202>>, <<400, 400, 1, 203>>, <<401, 401, 1, 1>>, <<403, 403, 1, 205>>,
     <<404, 404, 1, 207>>, <<406, 406, 1, 211>>, <<407, 407, 1, 209>>, <<408, 408, 1, 1>>, <<412, 412, 1, 211>>,
     <<413, 413, 1, 213>>, <<415, 415, 1, 214>>, <<416, 420, 2, 1>>, <<422, 422, 1, 218>>, <<423, 423, 1, 1>>,
     <<425, 425, 1, 218>>, <<428, 428, 1, 1>>, <<430, 430, 1, 218>>, <<431, 431, 1, 1>>, <<433, 434, 1, 217>>,
     <<435, 437, 2, 1>>, <<439, 439, 1, 219>>, <<440, 440, 1, 1>>, <<444, 444, 1, 1>>, <<452, 452, 1, 2>>,
     <<453, 453, 1, 1>>, <<455, 455, 1, 2>>, <<456, 456, 1, 1>>, <<458, 458, 1, 2>>, <<459, 475, 2, 1>>,
     <<478, 494, 2, 1>>, <<497, 497, 1, 2>>, <<498, 500, 2, 1>>, <<502, 502, 1, -97>>, <<503, 503, 1, -56>>,
     <<504, 542, 2, 1>>, <<544, 544, 1, -130>>, <<546, 562, 2, 1>>, <<570, 570, 1, 10795>>, <<571, 571, 1, 1>>,
     <<573, 573, 1, -163>>, <<574, 574, 1, 10792>>, <<577, 577, 1, 1>>, <<579, 579, 1, -195>>, <<580, 580, 1, 69>>,
     <<581, 581, 1, 71>>, <<582, 590, 2, 1>>, <<880, 882, 2, 1>>, <<886, 886, 1, 1>>, <<895, 895, 1, 116>>,
     <<902, 902, 1, 38>>, <<904, 906, 1, 37>>, <<908, 908, 1, 64>>, <<910, 911, 1, 63>>, <<913, 929, 1, 32>>,
     <<931, 939, 1, 32>>, <<975, 975, 1, 8>>, <<984, 1006, 2, 1>>, <<1012, 1012, 1, -60>>, <<1015, 1015, 1, 1>>,
     <<1017, 1017, 1, -7>>, <<1018, 1018, 1, 1>>, <<1021, 1023, 1, -130>>, <<1024, 1039, 1, 80>>, <<1040, 1071, 1, 32>>,
     <<1120, 1152, 2, 1>>, <<1162, 1214, 2, 1>>, <<1216, 1216, 1, 15>>, <<1217, 1229, 2, 1>>, <<1232, 1326, 2, 1>>,
     <<1329, 1366, 1, 48>>, <<4256, 4293, 1, 7264>>, <<4295, 4295, 1, 7264>>, <<4301, 4301, 1, 7264>>, <<5024, 5103, 1, 38864>>,
     <<5104, 5109, 1, 8>>, <<7312, 7354, 1, -3008>>, <<7357, 7359, 1, -3008>>, <<7680, 7828, 2, 1>>, <<7838, 7838, 1, -7615>>,
     <<7840, 7934, 2, 1>>, <<7944, 7951, 1, -8>>, <<7960, 7965, 1, -8>>, <<7976, 7983, 1, -8>>, <<7992, 7999, 1, -8>>,
     <<8008, 8013, 1, -8>>, <<8025, 8031, 2, -8>>, <<8040, 8047, 1, -8>>, <<8072, 8079, 1, -8>>, <<8088, 8095, 1, -8>>,
     <<8104, 8111, 1, -8>>, <<8120, 8121, 1, -8>>, <<8122, 8123, 1, -74>>, <<8124, 8124, 1, -9>>, <<8136, 8139, 1, -86>>,
     <<8140, 8140, 1, -9>>, <<8152, 8153, 1, -8>>, <<8154, 8155, 1, -100>>, <<8168, 8169, 1, -8>>, <<8170, 8171, 1, -112>>,
     <<8172, 8172, 1, -7>>, <<8184, 8185, 1, -128>>, <<8186, 8187, 1, -126>>, <<8188, 8188, 1, -9>>, <<8486, 8486, 1, -7517>>,
     <<8490, 8490, 1, -8383>>, <<8491, 8491, 1, -8262>>, <<8498, 8498, 1, 28>>, <<8544, 8559, 1, 16>>, <<8579, 8579, 1, 1>>,
     <<9398, 9423, 1, 26>>, <<11264, 11311, 1, 48>>, <<11360, 11360, 1, 1>>, <<11362, 11362, 1, -10743>>, <<11363, 11363, 1, -3814>>,
     <<11364, 11364, 1, -10727>>, <<11367, 11371, 2, 1>>, <<11373, 11373, 1, -10780>>, <<11374, 11374, 1, -10749>>, <<11375, 11375, 1, -10783>>,
     <<11376, 11376, 1, -10782>>, <<11378, 11378, 1, 1>>, <<11381, 11381, 1, 1>>, <<11390, 11391, 1, -10815>>, <<11392, 11490, 2, 1>>,
     <<11499, 11501, 2, 1>>, <<11506, 11506, 1, 1>>, <<42560, 42604, 2, 1>>, <<42624, 42650, 2, 1>>, <<42786, 42798, 2, 1>>,
     <<42802, 42862, 2, 1>>, <<42873, 42875, 2, 1>>, <<42877, 42877, 1, -35332>>, <<42878, 42886, 2, 1>>, <<42891, 42891, 1, 1>>,
     <<42893, 42893, 1, -42280>>, <<42896, 42898, 2, 1>>, <<42902, 42920, 2, 1>>, <<42922, 42922, 1, -42308>>, <<42923, 42923, 1, -42319>>,
     <<42924, 42924, 1, -42315>>, <<42925, 42925, 1, -42305>>, <<42926, 42926, 1, -42308>>, <<42928, 42928, 1, -42258>>, <<42929, 42929, 1, -42282>>,
     <<42930, 42930, 1, -42261>>, <<42931, 42931, 1, 928>>, <<42932, 42946, 2, 1>>, <<42948, 42948, 1, -48>>, <<42949, 42949, 1, -42307>>,
     <<42950, 42950, 1, -35384>>, <<42951, 42953, 2, 1>>, <<42960, 42960, 1, 1>>, <<42966, 42968, 2, 1>>, <<42997, 42997, 1, 1>>,
     <<65313, 65338, 1, 32>>, <<66560, 66599, 1, 40>>, <<66736, 66771, 1, 40>>, <<66928, 66938, 1, 39>>, <<66940, 66954, 1, 39>>,
     <<66956, 66962, 1, 39>>, <<66964, 66965, 1, 39>>, <<68736, 68786, 1, 64>>, <<71840, 71871, 1, 32>>, <<93760, 93791, 1, 32>>,
     <<125184, 125217, 1, 34>>}

\* str.lower, characters with a longer result
LowerSpecial ==
    {<<304, <<105, 775>>>>}

\* cased characters that are not case-ignorable (the final-sigma rule of str.lower)
CasedRanges ==
    {<<65, 90>>, <<97, 122>>, <<170, 170>>, <<181, 181>>, <<186, 186>>, <<192, 214>>,
     <<216, 246>>, <<248, 442>>, <<444, 447>>, <<452, 659>>, <<661, 687>>, <<880, 883>>,
     <<886, 887>>, <<891, 893>>, <<895, 895>>, <<902, 902>>, <<904, 906>>, <<908, 908>>,
     <<910, 929>>, <<931, 1013>>, <<1015, 1153>>, <<1162, 1327>>, <<1329, 1366>>, <<1376, 1416>>,
     <<4256, 4293>>, <<4295, 4295>>, <<4301, 4301>>, <<4304, 4346>>, <<4349, 4351>>, <<5024, 5109>>,
     <<5112, 5117>>, <<7296, 7304>>, <<7312, 7354>>, <<7357, 7359>>, <<7424, 7467>>, <<7531, 7543>>,
     <<7545, 7578>>, <<7680, 7957>>, <<7960, 7965>>, <<7968, 8005>>, <<8008, 8013>>, <<8016, 8023>>,
     <<8025, 8025>>, <<8027, 8027>>, <<8029, 8029>>, <<8031, 8061>>, <<8064, 8116>>, <<8118, 8124>>,
     <<8126, 8126>>, <<8130, 8132>>, <<8134, 8140>>, <<8144, 8147>>, <<8150, 8155>>, <<8160, 8172>>,
     <<8178, 8180>>, <<8182, 8188>>, <<8450, 8450>>, <<8455, 8455>>, <<8458, 8467>>, <<8469, 8469>>,
     <<8473, 8477>>, <<8484, 8484>>, <<8486, 8486>>, <<8488, 8488>>, <<8490, 8493>>, <<8495, 8500>>,
     <<8505, 8505>>, <<8508, 8511>>, <<8517, 8521>>, <<8526, 8526>>, <<8544, 8575>>, <<8579, 8580>>,
     <<9398, 9449>>, <<11264, 11387>>, <<11390, 11492>>, <<11499, 11502>>, <<11506, 11507>>, <<11520, 11557>>,
     <<11559, 11559>>, <<11565, 11565>>, <<42560, 42605>>, <<42624, 42651>>, <<42786, 42863>>, <<42865, 42887>>,
     <<42891, 42894>>, <<42896, 42954>>, <<42960, 42961>>, <<42963, 42963>>, <<42965, 42969>>, <<42997, 42998>>,
     <<43002, 43002>>, <<43824, 43866>>, <<43872, 43880>>, <<43888, 43967>>, <<64256, 64262>>, <<64275, 64279>>,
     <<65313, 65338>>, <<65345, 65370>>, <<66560, 66639>>, <<66736, 66771>>, <<66776, 66811>>, <<66928, 66938>>,
     <<66940, 66954>>, <<66956, 66962>>, <<66964, 66965>>, <<66967, 66977>>, <<66979, 66993>>, <<66995, 67001>>,
     <<67003, 67004>>, <<68736, 68786>>, <<68800, 68850>>, <<71840, 71903>>, <<93760, 93823>>, <<119808, 119892>>,
     <<119894, 119964>>, <<119966, 119967>>, <<119970, 119970>>, <<119973, 119974>>, <<119977, 119980>>, <<119982, 119993>>,
     <<119995, 119995>>, <<119997, 120003>>, <<120005, 120069>>, <<120071, 120074>>, <<120077, 120084>>, <<120086, 120092>>,
     <<120094, 120121>>, <<120123, 120126>>, <<120128, 120132>>, <<120134, 120134>>, <<120138, 120144>>, <<120146, 120485>>,
     <<120488, 120512>>, <<120514, 120538>>, <<120540, 120570>>, <<120572, 120596>>, <<120598, 120628>>, <<120630, 120654>>,
     <<120656, 120686>>, <<120688, 120712>>, <<120714, 120744>>, <<120746, 120770>>, <<120772, 120779>>, <<122624, 122633>>,
     <<122635, 122654>>, <<125184, 125251>>, <<127280, 127305>>, <<127312, 127337>>, <<127344, 127369>>}

\* case-ignorable characters (the final-sigma rule of str.lower)
CaseIgnorableRanges ==
    {<<39, 39>>, <<46, 46>>, <<58, 58>>, <<94, 94>>, <<96, 96>>, <<168, 168>>,
     <<173, 173>>, <<175, 175>>, <<180, 180>>, <<183, 184>>, <<688, 879>>, <<884, 885>>,
     <<890, 890>>, <<900, 901>>, <<903, 903>>, <<1155, 1161>>, <<1369, 1369>>, <<1375, 1375>>,
     <<1425, 1469>>, <<1471, 1471>>, <<1473, 1474>>, <<1476, 1477>>, <<1479, 1479>>, <<1524, 1524>>,
     <<1536, 1541>>, <<1552, 1562>>, <<1564, 1564>>, <<1600, 1600>>, <<1611, 1631>>, <<1648, 1648>>,
     <<1750, 1757>>, <<1759, 1768>>, <<1770, 1773>>, <<1807, 1807>>, <<1809, 1809>>, <<1840, 1866>>,
     <<1958, 1968>>, <<2027, 2037>>, <<2042, 2042>>, <<2045, 2045>>, <<2070, 2093>>, <<2137, 2139>>,
     <<2184, 2184>>, <<2192, 2193>>, <<2200, 2207>>, <<2249, 2306>>, <<2362, 2362>>, <<2364, 2364>>,
     <<2369, 2376>>, <<2381, 2381>>, <<2385, 2391>>, <<2402, 2403>>, <<2417, 2417>>, <<2433, 2433>>,
     <<2492, 2492>>, <<2497, 2500>>, <<2509, 2509>>, <<2530, 2531>>, <<2558, 2558>>, <<2561, 2562>>,
     <<2620, 2620>>, <<2625, 2626>>, <<2631, 2632>>, <<2635, 2637>>, <<2641, 2641>>, <<2672, 2673>>,
     <<2677, 2677>>, <<2689, 2690>>, <<2748, 2748>>, <<2753, 2757>>, <<2759, 2760>>, <<2765, 2765>>,
     <<2786, 2787>>, <<2810, 2815>>, <<2817, 2817>>, <<2876, 2876>>, <<2879, 2879>>, <<2881, 2884>>,
     <<2893, 2893>>, <<2901, 2902>>, <<2914, 2915>>, <<2946, 2946>>, <<3008, 3008>>, <<3021, 3021>>,
     <<3072, 3072>>, <<3076, 3076>>, <<3132, 3132>>, <<3134, 3136>>, <<3142, 3144>>, <<3146, 3149>>,
     <<3157, 3158>>, <<3170, 3171>>, <<3201, 3201>>, <<3260, 3260>>, <<3263, 3263>>, <<3270, 3270>>,
     <<3276, 3277>>, <<3298, 3299>>, <<3328, 3329>>, <<3387, 3388>>, <<3393, 3396>>, <<3405, 3405>>,
     <<3426, 3427>>, <<3457, 3457>>, <<3530, 3530>>, <<3538, 3540>>, <<3542, 3542>>, <<3633, 3633>>,
     <<3636, 3642>>, <<3654, 3662>>, <<3761, 3761>>, <<3764, 3772>>, <<3782, 3782>>, <<3784, 3789>>,
     <<3864, 3865>>, <<3893, 3893>>, <<3895, 3895>>, <<3897, 3897>>, <<3953, 3966>>, <<3968, 3972>>,
     <<3974, 3975>>, <<3981, 3991>>, <<3993, 4028>>, <<4038, 4038>>, <<4141, 4144>>, <<4146, 4151>>,
     <<4153, 4154>>, <<4157, 4158>>, <<4184, 4185>>, <<4190, 4192>>, <<4209, 4212>>, <<4226, 4226>>,
     <<4229, 4230>>, <<4237, 4237>>, <<4253, 4253>>, <<4348, 4348>>, <<4957, 4959>>, <<5906, 5908>>,
     <<5938, 5939>>, <<5970, 5971>>, <<6002, 6003>>, <<6068, 6069>>, <<6071, 6077>>, <<6086, 6086>>,
     <<6089, 6099>>, <<6103, 6103>>, <<6109, 6109>>, <<6155, 6159>>, <<6211, 6211>>, <<6277, 6278>>,
     <<6313, 6313>>, <<6432, 6434>>, <<6439, 6440>>, <<6450, 6450>>, <<6457, 6459>>, <<6679, 6680>>,
     <<6683, 6683>>, <<6742, 6742>>, <<6744, 6750>>, <<6752, 6752>>, <<6754, 6754>>, <<6757, 6764>>,
     <<6771, 6780>>, <<6783, 6783>>, <<6823, 6823>>, <<6832, 6862>>, <<6912, 6915>>, <<6964, 6964>>,
     <<6966, 6970>>, <<6972, 6972>>, <<6978, 6978>>, <<7019, 7027>>, <<7040, 7041>>, <<7074, 7077>>,
     <<7080, 7081>>, <<7083, 7085>>, <<7142, 7142>>, <<7144, 7145>>, <<7149, 7149>>, <<7151, 7153>>,
     <<7212, 7219>>, <<7222, 7223>>, <<7288, 7293>>, <<7376, 7378>>, <<7380, 7392>>, <<7394, 7400>>,
     <<7405, 7405>>, <<7412, 7412>>, <<7416, 7417>>, <<7468, 7530>>, <<7544, 7544>>, <<7579, 7679>>,
     <<8125, 8125>>, <<8127, 8129>>, <<8141, 8143>>, <<8157, 8159>>, <<8173, 8175>>, <<8189, 8190>>,
     <<8203, 8207>>, <<8216, 8217>>, <<8228, 8228>>, <<8231, 8231>>, <<8234, 8238>>, <<8288, 8292>>,
     <<8294, 8303>>, <<8305, 8305>>, <<8319, 8319>>, <<8336, 8348>>, <<8400, 8432>>, <<11388, 11389>>,
     <<11503, 11505>>, <<11631, 11631>>, <<11647, 11647>>, <<11744, 11775>>, <<11823, 11823>>, <<12293, 12293>>,
     <<12330, 12333>>, <<12337, 12341>>, <<12347, 12347>>, <<12441, 12446>>, <<12540, 12542>>, <<40981, 40981>>,
     <<42232, 42237>>, <<42508, 42508>>, <<42607, 42610>>, <<42612, 42621>>, <<42623, 42623>>, <<42652, 42655>>,
     <<42736, 42737>>, <<42752, 42785>>, <<42864, 42864>>, <<42888, 42890>>, <<42994, 42996>>, <<43000, 43001>>,
     <<43010, 43010>>, <<43014, 43014>>, <<43019, 43019>>, <<43045, 43046>>, <<43052, 43052>>, <<43204, 43205>>,
     <<43232, 43249>>, <<43263, 43263>>, <<43302, 43309>>, <<43335, 43345>>, <<43392, 43394>>, <<43443, 43443>>,
     <<43446, 43449>>, <<43452, 43453>>, <<43471, 43471>>, <<43493, 43494>>, <<43561, 43566>>, <<43569, 43570>>,
     <<43573, 43574>>, <<43587, 43587>>, <<43596, 43596>>, <<43632, 43632>>, <<43644, 43644>>, <<43696, 43696>>,
     <<43698, 43700>>, <<43703, 43704>>, <<43710, 43711>>, <<43713, 43713>>, <<43741, 43741>>, <<43756, 43757>>,
     <<43763, 43764>>, <<43766, 43766>>, <<43867, 43871>>, <<43881, 43883>>, <<44005, 44005>>, <<44008, 44008>>,
     <<44013, 44013>>, <<64286, 64286>>, <<64434, 64450>>, <<65024, 65039>>, <<65043, 65043>>, <<65056, 65071>>,
     <<65106, 65106>>, <<65109, 65109>>, <<65279, 65279>>, <<65287, 65287>>, <<65294, 65294>>, <<65306, 65306>>,
     <<65342, 65342>>, <<65344, 65344>>, <<65392, 65392>>, <<65438, 65439>>, <<65507, 65507>>, <<65529, 65531>>,
     <<66045, 66045>>, <<66272, 66272>>, <<66422, 66426>>, <<67456, 67461>>, <<67463, 67504>>, <<67506, 67514>>,
     <<68097, 68099>>, <<68101, 68102>>, <<68108, 68111>>, <<68152, 68154>>, <<68159, 68159>>, <<68325, 68326>>,
     <<68900, 68903>>, <<69291, 69292>>, <<69446, 69456>>, <<69506, 69509>>, <<69633, 69633>>, <<69688, 69702>>,
     <<69744, 69744>>, <<69747, 69748>>, <<69759, 69761>>, <<69811, 69814>>, <<69817, 69818>>, <<69821, 69821>>,
     <<69826, 69826>>, <<69837, 69837>>, <<69888, 69890>>, <<69927, 69931>>, <<69933, 69940>>, <<70003, 70003>>,
     <<70016, 70017>>, <<70070, 70078>>, <<70089, 70092>>, <<70095, 70095>>, <<70191, 70193>>, <<70196, 70196>>,
     <<70198, 70199>>, <<70206, 70206>>, <<70367, 70367>>, <<70371, 70378>>, <<70400, 70401>>, <<70459, 70460>>,
     <<70464, 70464>>, <<70502, 70508>>, <<70512, 70516>>, <<70712, 70719>>, <<70722, 70724>>, <<70726, 70726>>,
     <<70750, 70750>>, <<70835, 70840>>, <<70842, 70842>>, <<70847, 70848>>, <<70850, 70851>>, <<71090, 71093>>,
     <<71100, 71101>>, <<71103, 71104>>, <<71132, 71133>>, <<71219, 71226>>, <<71229, 71229>>, <<71231, 71232>>,
     <<71339, 71339>>, <<71341, 71341>>, <<71344, 71349>>, <<71351, 71351>>, <<71453, 71455>>, <<71458, 71461>>,
     <<71463, 71467>>, <<71727, 71735>>, <<71737, 71738>>, <<71995, 71996>>, <<71998, 71998>>, <<72003, 72003>>,
     <<72148, 72151>>, <<72154, 72155>>, <<72160, 72160>>, <<72193, 72202>>, <<72243, 72248>>, <<72251, 72254>>,
     <<72263, 72263>>, <<72273, 72278>>, <<72281, 72283>>, <<72330, 72342>>, <<72344, 72345>>, <<72752, 72758>>,
     <<72760, 72765>>, <<72767, 72767>>, <<72850, 72871>>, <<72874, 72880>>, <<72882, 72883>>, <<72885, 72886>>,
     <<73009, 73014>>, <<73018, 73018>>, <<73020, 73021>>, <<73023, 73029>>, <<73031, 73031>>, <<73104, 73105>>,
     <<73109, 73109>>, <<73111, 73111>>, <<73459, 73460>>, <<78896, 78904>>, <<92912, 92916>>, <<92976, 92982>>,
     <<92992, 92995>>, <<94031, 94031>>, <<94095, 94111>>, <<94176, 94177>>, <<94179, 94180>>, <<110576, 110579>>,
     <<110581, 110587>>, <<110589, 110590>>, <<113821, 113822>>, <<113824, 113827>>, <<118528, 118573>>, <<118576, 118598>>,
     <<119143, 119145>>, <<119155, 119170>>, <<119173, 119179>>, <<119210, 119213>>, <<119362, 119364>>, <<121344, 121398>>,
     <<121403, 121452>>, <<121461, 121461>>, <<121476, 121476>>, <<121499, 121503>>, <<121505, 121519>>, <<122880, 122886>>,
     <<122888, 122904>>, <<122907, 122913>>, <<122915, 122916>>, <<122918, 122922>>, <<123184, 123197>>, <<123566, 123566>>,
     <<123628, 123631>>, <<125136, 125142>>, <<125252, 125259>>, <<127995, 127999>>, <<917505, 917505>>, <<917536, 917631>>,
     <<917760, 917999>>}

\* not str.isprintable: the characters repr() escapes
NonPrintableRanges ==
    {<<0, 31>>, <<127, 160>>, <<173, 173>>, <<888, 889>>, <<896, 899>>, <<907, 907>>,
     <<909, 909>>, <<930, 930>>, <<1328, 1328>>, <<1367, 1368>>, <<1419, 1420>>, <<1424, 1424>>,
     <<1480, 1487>>, <<1515, 1518>>, <<1525, 1541>>, <<1564, 1564>>, <<1757, 1757>>, <<1806, 1807>>,
     <<1867, 1868>>, <<1970, 1983>>, <<2043, 2044>>, <<2094, 2095>>, <<2111, 2111>>, <<2140, 2141>>,
     <<2143, 2143>>, <<2155, 2159>>, <<2191, 2199>>, <<2274, 2274>>, <<2436, 2436>>, <<2445, 2446>>,
     <<2449, 2450>>, <<2473, 2473>>, <<2481, 2481>>, <<2483, 2485>>, <<2490, 2491>>, <<2501, 2502>>,
     <<2505, 2506>>, <<2511, 2518>>, <<2520, 2523>>, <<2526, 2526>>, <<2532, 2533>>, <<2559, 2560>>,
     <<2564, 2564>>, <<2571, 2574>>, <<2577, 2578>>, <<2601, 2601>>, <<2609, 2609>>, <<2612, 2612>>,
     <<2615, 2615>>, <<2618, 2619>>, <<2621, 2621>>, <<2627, 2630>>, <<2633, 2634>>, <<2638, 2640>>,
     <<2642, 2648>>, <<2653, 2653>>, <<2655, 2661>>, <<2679, 2688>>, <<2692, 2692>>, <<2702, 2702>>,
     <<2706, 2706>>, <<2729, 2729>>, <<2737, 2737>>, <<2740, 2740>>, <<2746, 2747>>, <<2758, 2758>>,
     <<2762, 2762>>, <<2766, 2767>>, <<2769, 2783>>, <<2788, 2789>>, <<2802, 2808>>, <<2816, 2816>>,
     <<2820, 2820>>, <<2829, 2830>>, <<2833, 2834>>, <<2857, 2857>>, <<2865, 2865>>, <<2868, 2868>>,
     <<2874, 2875>>, <<2885, 2886>>, <<2889, 2890>>, <<2894, 2900>>, <<2904, 2907>>, <<2910, 2910>>,
     <<2916, 2917>>, <<2936, 2945>>, <<2948, 2948>>, <<2955, 2957>>, <<2961, 2961>>, <<2966, 2968>>,
     <<2971, 2971>>, <<2973, 2973>>, <<2976, 2978>>, <<2981, 2983>>, <<2987, 2989>>, <<3002, 3005>>,
     <<3011, 3013>>, <<3017, 3017>>, <<3022, 3023>>, <<3025, 3030>>, <<3032, 3045>>, <<3067, 3071>>,
     <<3085, 3085>>, <<3089, 3089>>, <<3113, 3113>>, <<3130, 3131>>, <<3141, 3141>>, <<3145, 3145>>,
     <<3150, 3156>>, <<3159, 3159>>, <<3163, 3164>>, <<3166, 3167>>, <<3172, 3173>>, <<3184, 3190>>,
     <<3213, 3213>>, <<3217, 3217>>, <<3241, 3241>>, <<3252, 3252>>, <<3258, 3259>>, <<3269, 3269>>,
     <<3273, 3273>>, <<3278, 3284>>, <<3287, 3292>>, <<3295, 3295>>, <<3300, 3301>>, <<3312, 3312>>,
     <<3315, 3327>>, <<3341, 3341>>, <<3345, 3345>>, <<3397, 3397>>, <<3401, 3401>>, <<3408, 3411>>,
     <<3428, 3429>>, <<3456, 3456>>, <<3460, 3460>>, <<3479, 3481>>, <<3506, 3506>>, <<3516, 3516>>,
     <<3518, 3519>>, <<3527, 3529>>, <<3531, 3534>>, <<3541, 3541>>, <<3543, 3543>>, <<3552, 3557>>,
     <<3568, 3569>>, <<3573, 3584>>, <<3643, 3646>>, <<3676, 3712>>, <<3715, 3715>>, <<3717, 3717>>,
     <<3723, 3723>>, <<3748, 3748>>, <<3750, 3750>>, <<3774, 3775>>, <<3781, 3781>>, <<3783, 3783>>,
     <<3790, 3791>>, <<3802, 3803>>, <<3808, 3839>>, <<3912, 3912>>, <<3949, 3952>>, <<3992, 3992>>,
     <<4029, 4029>>, <<4045, 4045>>, <<4059, 4095>>, <<4294, 4294>>, <<4296, 4300>>, <<4302, 4303>>,
     <<4681, 4681>>, <<4686, 4687>>, <<4695, 4695>>, <<4697, 4697>>, <<4702, 4703>>, <<4745, 4745>>,
     <<4750, 4751>>, <<4785, 4785>>, <<4790, 4791>>, <<4799, 4799>>, <<4801, 4801>>, <<4806, 4807>>,
     <<4823, 4823>>, <<4881, 4881>>, <<4886, 4887>>, <<4955, 4956>>, <<4989, 4991>>, <<5018, 5023>>,
     <<5110, 5111>>, <<5118, 5119>>, <<5760, 5760>>, <<5789, 5791>>, <<5881, 5887>>, <<5910, 5918>>,
     <<5943, 5951>>, <<5972, 5983>>, <<5997, 5997>>, <<6001, 6001>>, <<6004, 6015>>, <<6110, 6111>>,
     <<6122, 6127>>, <<6138, 6143>>, <<6158, 6158>>, <<6170, 6175>>, <<6265, 6271>>, <<6315, 6319>>,
     <<6390, 6399>>, <<6431, 6431>>, <<6444, 6447>>, <<6460, 6463>>, <<6465, 6467>>, <<6510, 6511>>,
     <<6517, 6527>>, <<6572, 6575>>, <<6602, 6607>>, <<6619, 6621>>, <<6684, 6685>>, <<6751, 6751>>,
     <<6781, 6782>>, <<6794, 6799>>, <<6810, 6815>>, <<6830, 6831>>, <<6863, 6911>>, <<6989, 6991>>,
     <<7039, 7039>>, <<7156, 7163>>, <<7224, 7226>>, <<7242, 7244>>, <<7305, 7311>>, <<7355, 7356>>,
     <<7368, 7375>>, <<7419, 7423>>, <<7958, 7959>>, <<7966, 7967>>, <<8006, 8007>>, <<8014, 8015>>,
     <<8024, 8024>>, <<8026, 8026>>, <<8028, 8028>>, <<8030, 8030>>, <<8062, 8063>>, <<8117, 8117>>,
     <<8133, 8133>>, <<8148, 8149>>, <<8156, 8156>>, <<8176, 8177>>, <<8181, 8181>>, <<8191, 8207>>,
     <<8232, 8239>>, <<8287, 8303>>, <<8306, 8307>>, <<8335, 8335>>, <<8349, 8351>>, <<8385, 8399>>,
     <<8433, 8447>>, <<8588, 8591>>, <<9255, 9279>>, <<9291, 9311>>, <<11124, 11125>>, <<11158, 11158>>,
     <<11508, 11512>>, <<11558, 11558>>, <<11560, 11564>>, <<11566, 11567>>, <<11624, 11630>>, <<11633, 11646>>,
     <<11671, 11679>>, <<11687, 11687>>, <<11695, 11695>>, <<11703, 11703>>, <<11711, 11711>>, <<11719, 11719>>,
     <<11727, 11727>>, <<11735, 11735>>, <<11743, 11743>>, <<11870, 11903>>, <<11930, 11930>>, <<12020, 12031>>,
     <<12246, 12271>>, <<12284, 12288>>, <<12352, 12352>>, <<12439, 12440>>, <<12544, 12548>>, <<12592, 12592>>,
     <<12687, 12687>>, <<12772, 12783>>, <<12831, 12831>>, <<42125, 42127>>, <<42183, 42191>>, <<42540, 42559>>,
     <<42744, 42751>>, <<42955, 42959>>, <<42962, 42962>>, <<42964, 42964>>, <<42970, 42993>>, <<43053, 43055>>,
     <<43066, 43071>>, <<43128, 43135>>, <<43206, 43213>>, <<43226, 43231>>, <<43348, 43358>>, <<43389, 43391>>,
     <<43470, 43470>>, <<43482, 43485>>, <<43519, 43519>>, <<43575, 43583>>, <<43598, 43599>>, <<43610, 43611>>,
     <<43715, 43738>>, <<43767, 43776>>, <<43783, 43784>>, <<43791, 43792>>, <<43799, 43807>>, <<43815, 43815>>,
     <<43823, 43823>>, <<43884, 43887>>, <<44014, 44015>>, <<44026, 44031>>, <<55204, 55215>>, <<55239, 55242>>,
     <<55292, 63743>>, <<64110, 64111>>, <<64218, 64255>>, <<64263, 64274>>, <<64280, 64284>>, <<64311, 64311>>,
     <<64317, 64317>>, <<64319, 64319>>, <<64322, 64322>>, <<64325, 64325>>, <<64451, 64466>>, <<64912, 64913>>,
     <<64968, 64974>>, <<64976, 65007>>, <<65050, 65055>>, <<65107, 65107>>, <<65127, 65127>>, <<65132, 65135>>,
     <<65141, 65141>>, <<65277, 65280>>, <<65471, 65473>>, <<65480, 65481>>, <<65488, 65489>>, <<65496, 65497>>,
     <<65501, 65503>>, <<65511, 65511>>, <<65519, 65531>>, <<65534, 65535>>, <<65548, 65548>>, <<65575, 65575>>,
     <<65595, 65595>>, <<65598, 65598>>, <<65614, 65615>>, <<65630, 65663>>, <<65787, 65791>>, <<65795, 65798>>,
     <<65844, 65846>>, <<65935, 65935>>, <<65949, 65951>>, <<65953, 65999>>, <<66046, 66175>>, <<66205, 66207>>,
     <<66257, 66271>>, <<66300, 66303>>, <<66340, 66348>>, <<66379, 66383>>, <<66427, 66431>>, <<66462, 66462>>,
     <<66500, 66503>>, <<66518, 66559>>, <<66718, 66719>>, <<66730, 66735>>, <<66772, 66775>>, <<66812, 66815>>,
     <<66856, 66863>>, <<66916, 66926>>, <<66939, 66939>>, <<66955, 66955>>, <<66963, 66963>>, <<66966, 66966>>,
     <<66978, 66978>>, <<66994, 66994>>, <<67002, 67002>>, <<67005, 67071>>, <<67383, 67391>>, <<67414, 67423>>,
     <<67432, 67455>>, <<67462, 67462>>, <<67505, 67505>>, <<67515, 67583>>, <<67590, 67591>>, <<67593, 67593>>,
     <<67638, 67638>>, <<67641, 67643>>, <<67645, 67646>>, <<67670, 67670>>, <<67743, 67750>>, <<67760, 67807>>,
     <<67827, 67827>>, <<67830, 67834>>, <<67868, 67870>>, <<67898, 67902>>, <<67904, 67967>>, <<68024, 68027>>,
     <<68048, 68049>>, <<68100, 68100>>, <<68103, 68107>>, <<68116, 68116>>, <<68120, 68120>>, <<68150, 68151>>,
     <<68155, 68158>>, <<68169, 68175>>, <<68185, 68191>>, <<68256, 68287>>, <<68327, 68330>>, <<68343, 68351>>,
     <<68406, 68408>>, <<68438, 68439>>, <<68467, 68471>>, <<68498, 68504>>, <<68509, 68520>>, <<68528, 68607>>,
     <<68681, 68735>>, <<68787, 68799>>, <<68851, 68857>>, <<68904, 68911>>, <<68922, 69215>>, <<69247, 69247>>,
     <<69290, 69290>>, <<69294, 69295>>, <<69298, 69375>>, <<69416, 69423>>, <<69466, 69487>>, <<69514, 69551>>,
     <<69580, 69599>>, <<69623, 69631>>, <<69710, 69713>>, <<69750, 69758>>, <<69821, 69821>>, <<69827, 69839>>,
     <<69865, 69871>>, <<69882, 69887>>, <<69941, 69941>>, <<69960, 69967>>, <<70007, 70015>>, <<70112, 70112>>,
     <<70133, 70143>>, <<70162, 70162>>, <<70207, 70271>>, <<70279, 70279>>, <<70281, 70281>>, <<70286, 70286>>,
     <<70302, 70302>>, <<70314, 70319>>, <<70379, 70383>>, <<70394, 70399>>, <<70404, 70404>>, <<70413, 70414>>,
     <<70417, 70418>>, <<70441, 70441>>, <<70449, 70449>>, <<70452, 70452>>, <<70458, 70458>>, <<70469, 70470>>,
     <<70473, 70474>>, <<70478, 70479>>, <<70481, 70486>>, <<70488, 70492>>, <<70500, 70501>>, <<70509, 70511>>,
     <<70517, 70655>>, <<70748, 70748>>, <<70754, 70783>>, <<70856, 70863>>, <<70874, 71039>>, <<71094, 71095>>,
     <<71134, 71167>>, <<71237, 71247>>, <<71258, 71263>>, <<71277, 71295>>, <<71354, 71359>>, <<71370, 71423>>,
     <<71451, 71452>>, <<71468, 71471>>, <<71495, 71679>>, <<71740, 71839>>, <<71923, 71934>>, <<71943, 71944>>,
     <<71946, 71947>>, <<71956, 71956>>, <<71959, 71959>>, <<71990, 71990>>, <<71993, 71994>>, <<72007, 72015>>,
     <<72026, 72095>>, <<72104, 72105>>, <<72152, 72153>>, <<72165, 72191>>, <<72264, 72271>>, <<72355, 72367>>,
     <<72441, 72703>>, <<72713, 72713>>, <<72759, 72759>>, <<72774, 72783>>, <<72813, 72815>>, <<72848, 72849>>,
     <<72872, 72872>>, <<72887, 72959>>, <<72967, 72967>>, <<72970, 72970>>, <<73015, 73017>>, <<73019, 73019>>,
     <<73022, 73022>>, <<73032, 73039>>, <<73050, 73055>>, <<73062, 73062>>, <<73065, 73065>>, <<73103, 73103>>,
     <<73106, 73106>>, <<73113, 73119>>, <<73130, 73439>>, <<73465, 73647>>, <<73649, 73663>>, <<73714, 73726>>,
     <<74650, 74751>>, <<74863, 74863>>, <<74869, 74879>>, <<75076, 77711>>, <<77811, 77823>>, <<78895, 82943>>,
     <<83527, 92159>>, <<92729, 92735>>, <<92767, 92767>>, <<92778, 92781>>, <<92863, 92863>>, <<92874, 92879>>,
     <<92910, 92911>>, <<92918, 92927>>, <<92998, 93007>>, <<93018, 93018>>, <<93026, 93026>>, <<93048, 93052>>,
     <<93072, 93759>>, <<93851, 93951>>, <<94027, 94030>>, <<94088, 94094>>, <<94112, 94175>>, <<94181, 94191>>,
     <<94194, 94207>>, <<100344, 100351>>, <<101590, 101631>>, <<101641, 110575>>, <<110580, 110580>>, <<110588, 110588>>,
     <<110591, 110591>>, <<110883, 110927>>, <<110931, 110947>>, <<110952, 110959>>, <<111356, 113663>>, <<113771, 113775>>,
     <<113789, 113791>>, <<113801, 113807>>, <<113818, 113819>>, <<113824, 118527>>, <<118574, 118575>>, <<118599, 118607>>,
     <<118724, 118783>>, <<119030, 119039>>, <<119079, 119080>>, <<119155, 119162>>, <<119275, 119295>>, <<119366, 119519>>,
     <<119540, 119551>>, <<119639, 119647>>, <<119673, 119807>>, <<119893, 119893>>, <<119965, 119965>>, <<119968, 119969>>,
     <<119971, 119972>>, <<119975, 119976>>, <<119981, 119981>>, <<119994, 119994>>, <<119996, 119996>>, <<120004, 120004>>,
     <<120070, 120070>>, <<120075, 120076>>, <<120085, 120085>>, <<120093, 120093>>, <<120122, 120122>>, <<120127, 120127>>,
     <<120133, 120133>>, <<120135, 120137>>, <<120145, 120145>>, <<120486, 120487>>, <<120780, 120781>>, <<121484, 121498>>,
     <<121504, 121504>>, <<121520, 122623>>, <<122655, 122879>>, <<122887, 122887>>, <<122905, 122906>>, <<122914, 122914>>,
     <<122917, 122917>>, <<122923, 123135>>, <<123181, 123183>>, <<123198, 123199>>, <<123210, 123213>>, <<123216, 123535>>,
     <<123567, 123583>>, <<123642, 123646>>, <<123648, 124895>>, <<124903, 124903>>, <<124908, 124908>>, <<124911, 124911>>,
     <<124927, 124927>>, <<125125, 125126>>, <<125143, 125183>>, <<125260, 125263>>, <<125274, 125277>>, <<125280, 126064>>,
     <<126133, 126208>>, <<126270, 126463>>, <<126468, 126468>>, <<126496, 126496>>, <<126499, 126499>>, <<126501, 126502>>,
     <<126504, 126504>>, <<126515, 126515>>, <<126520, 126520>>, <<126522, 126522>>, <<126524, 126529>>, <<126531, 126534>>,
     <<126536, 126536>>, <<126538, 126538>>, <<126540, 126540>>, <<126544, 126544>>, <<126547, 126547>>, <<126549, 126550>>,
     <<126552, 126552>>, <<126554, 126554>>, <<126556, 126556>>, <<126558, 126558>>, <<126560, 126560>>, <<126563, 126563>>,
     <<126565, 126566>>, <<126571, 126571>>, <<126579, 126579>>, <<126584, 126584>>, <<126589, 126589>>, <<126591, 126591>>,
     <<126602, 126602>>, <<126620, 126624>>, <<126628, 126628>>, <<126634, 126634>>, <<126652, 126703>>, <<126706, 126975>>,
     <<127020, 127023>>, <<127124, 127135>>, <<127151, 127152>>, <<127168, 127168>>, <<127184, 127184>>, <<127222, 127231>>,
     <<127406, 127461>>, <<127491, 127503>>, <<127548, 127551>>, <<127561, 127567>>, <<127570, 127583>>, <<127590, 127743>>,
     <<128728, 128732>>, <<128749, 128751>>, <<128765, 128767>>, <<128884, 128895>>, <<128985, 128991>>, <<129004, 129007>>,
     <<129009, 129023>>, <<129036, 129039>>, <<129096, 129103>>, <<129114, 129119>>, <<129160, 129167>>, <<129198, 129199>>,
     <<129202, 129279>>, <<129620, 129631>>, <<129646, 129647>>, <<129653, 129655>>, <<129661, 129663>>, <<129671, 129679>>,
     <<129709, 129711>>, <<129723, 129727>>, <<129734, 129743>>, <<129754, 129759>>, <<129768, 129775>>, <<129783, 129791>>,
     <<129939, 129939>>, <<129995, 130031>>, <<130042, 131071>>, <<173792, 173823>>, <<177977, 177983>>, <<178206, 178207>>,
     <<183970, 183983>>, <<191457, 194559>>, <<195102, 196607>>, <<201547, 917759>>, <<918000, 1114111>>}

\* characters whose NFKC form holds one of / ? # @ :  (urllib.parse._checknetloc)
NfkcDelimiterChars ==
    {8263, 8264, 8265, 8448, 8449, 8453, 8454, 10868, 65043, 65046,
     65109, 65110, 65119, 65131, 65283, 65295, 65306, 65311, 65312}

\* re.IGNORECASE: the characters each character of the page pattern matches
IgnoreCaseMatches ==
    {<<34, <<34>>>>, <<45, <<45>>>>, <<61, <<61>>>>,
     <<97, <<65, 97>>>>, <<100, <<68, 100>>>>, <<101, <<69, 101>>>>,
     <<105, <<73, 105, 304, 305>>>>, <<107, <<75, 107, 8490>>>>, <<109, <<77, 109>>>>,
     <<112, <<80, 112>>>>, <<114, <<82, 114>>>>, <<116, <<84, 116>>>>}

----------------------------------------------------------------------------
\* Text.  A str is the tuple of its code points.

\* the printable ASCII characters in code order: 32 to 95, and 97 to 126
\* (a grave accent, 96, cannot be written in a string of this language)
Printable ==
    " !\"#$%&'()*+,-./0123456789:;<=>?@ABCDEFGHIJKLMNOPQRSTUVWXYZ[\\]^_"

PrintableLower == "abcdefghijklmnopqrstuvwxyz{|}~"

\* ord() of the characters a literal of this module can hold
ordinals ==
    [ch \in {"\t", "\n", "\f", "\r"}
               \cup {SubSeq(Printable, i, i) : i \in 1..64}
               \cup {SubSeq(PrintableLower, i, i) : i \in 1..30} |->
        IF ch = "\t" THEN 9
        ELSE IF ch = "\n" THEN 10
        ELSE IF ch = "\f" THEN 12
        ELSE IF ch = "\r" THEN 13
        ELSE IF \E i \in 1..64 : SubSeq(Printable, i, i) = ch
        THEN 31 + CHOOSE i \in 1..64 : SubSeq(Printable, i, i) = ch
        ELSE 96 + CHOOSE i \in 1..30 : SubSeq(PrintableLower, i, i) = ch]

\* ord() of a one-character string
ord(ch) == ordinals[ch]

\* the str a literal of the source denotes
RECURSIVE Text(_)
Text(s) == IF s = "" THEN <<>> ELSE <<ord(Head(s))>> \o Text(Tail(s))

InRanges(c, table) == \E r \in table : r[1] <= c /\ c <= r[2]

InRun(c, r) == r[1] <= c /\ c <= r[2] /\ (c - r[1]) % r[3] = 0

\* sequence[:n] and sequence[n:]
Take(s, n) == SubSeq(s, 1, IF n < Len(s) THEN n ELSE Len(s))

Drop(s, n) == SubSeq(s, n + 1, Len(s))

StartsWith(s, prefix) == Len(prefix) <= Len(s) /\ SubSeq(s, 1, Len(prefix)) = prefix

\* str.find(sub, start) as a 1-based index, 0 when absent
Find(s, sub, start) ==
    LET hits == {i \in start..(Len(s) - Len(sub) + 1) : SubSeq(s, i, i + Len(sub) - 1) = sub}
    IN  IF hits = {} THEN 0 ELSE CHOOSE i \in hits : \A j \in hits : i <= j

\* str.rfind(sub) as a 1-based index, 0 when absent
RFind(s, sub) ==
    LET hits == {i \in 1..(Len(s) - Len(sub) + 1) : SubSeq(s, i, i + Len(sub) - 1) = sub}
    IN  IF hits = {} THEN 0 ELSE CHOOSE i \in hits : \A j \in hits : i >= j

\* sub in s
Contains(s, sub) == Find(s, sub, 1) # 0

\* s.split(sep) for a one-character separator, the first sep being at i
RECURSIVE Split(_, _)
split_at(s, sep, i) ==
    IF i = 0 THEN <<s>> ELSE <<SubSeq(s, 1, i - 1)>> \o Split(Drop(s, i), sep)

Split(s, sep) == split_at(s, sep, Find(s, <<sep>>, 1))

\* sep.join(parts)
RECURSIVE Join(_, _)
Join(parts, sep) ==
    IF parts = <<>> THEN <<>>
    ELSE IF Len(parts) = 1 THEN parts[1]
    ELSE parts[1] \o sep \o Join(Tail(parts), sep)

\* s.replace(ch, "") for a character
RECURSIVE Remove(_, _)
Remove(s, chars) ==
    IF s = <<>> THEN <<>>
    ELSE IF Head(s) \in chars THEN Remove(Tail(s), chars)
    ELSE <<Head(s)>> \o Remove(Tail(s), chars)

isspace(c) == InRanges(c, SpaceRanges)

RECURSIVE lstrip(_)
lstrip(s) == IF s # <<>> /\ isspace(Head(s)) THEN lstrip(Tail(s)) ELSE s

RECURSIVE rstrip(_)
rstrip(s) ==
    IF s # <<>> /\ isspace(s[Len(s)]) THEN rstrip(SubSeq(s, 1, Len(s) - 1)) ELSE s

strip(s) == rstrip(lstrip(s))

\* str.upper of one character
upper_char(c) ==
    LET mapped(special, runs) ==
            IF special # {} THEN (CHOOSE p \in special : TRUE)[2]
            ELSE IF runs # {} THEN <<c + (CHOOSE r \in runs : TRUE)[4]>>
            ELSE <<c>>
    IN  IF c < 128 THEN (IF c \in 97..122 THEN <<c - 32>> ELSE <<c>>)
        ELSE mapped({p \in UpperSpecial : p[1] = c}, {r \in UpperRuns : InRun(c, r)})

RECURSIVE upper(_)
upper(s) == IF s = <<>> THEN <<>> ELSE upper_char(Head(s)) \o upper(Tail(s))

\* str.lower of one character, the capital sigma aside
lower_char(c) ==
    LET mapped(special, runs) ==
            IF special # {} THEN (CHOOSE p \in special : TRUE)[2]
            ELSE IF runs # {} THEN <<c + (CHOOSE r \in runs : TRUE)[4]>>
            ELSE <<c>>
    IN  IF c < 128 THEN (IF c \in 65..90 THEN <<c + 32>> ELSE <<c>>)
        ELSE mapped({p \in LowerSpecial : p[1] = c}, {r \in LowerRuns : InRun(c, r)})

\* a capital sigma is final when the nearest character before it that is not
\* case-ignorable is cased and the nearest such character after it is not
final_sigma(s, i) ==
    LET decide(solid, cased) ==
            LET before == {j \in solid : j < i}
                after == {j \in solid : j > i}
            IN  /\ before # {}
                /\ (CHOOSE j \in before : \A k \in before : k <= j) \in cased
                /\ \/ after = {}
                   \/ (CHOOSE j \in after : \A k \in after : j <= k) \notin cased
    IN  decide({j \in DOMAIN s : ~InRanges(s[j], CaseIgnorableRanges)},
               {j \in DOMAIN s : InRanges(s[j], CasedRanges)})

RECURSIVE lower_from(_, _)
lower_from(s, i) ==
    IF i > Len(s) THEN <<>>
    ELSE (IF s[i] = 931
          THEN (IF final_sigma(s, i) THEN <<962>> ELSE <<963>>)
          ELSE lower_char(s[i])) \o lower_from(s, i + 1)

lower(s) == lower_from(s, 1)

isdigit(s) == s # <<>> /\ \A i \in DOMAIN s : InRanges(s[i], DigitRanges)

isdecimal_char(c) == IF c < 128 THEN c \in 48..57 ELSE InRanges(c, DecimalRanges)

\* the value of a decimal digit of any script
decimal_value(c) ==
    IF c < 128 THEN c - 48
    ELSE (c - (CHOOSE r \in DecimalRanges : r[1] <= c /\ c <= r[2])[1]) % 10

isascii(s) == \A i \in DOMAIN s : s[i] < 128

\* str(n) of an int
RECURSIVE NatToStr(_)
NatToStr(n) == IF n < 10 THEN <<48 + n>> ELSE NatToStr(n \div 10) \o <<48 + (n % 10)>>

IntToStr(n) == IF n < 0 THEN <<45>> \o NatToStr(-n) ELSE NatToStr(n)

\* CPython's limit on the digits of a decimal literal that int() converts
int_max_str_digits == 4300

\* int(str), first pass: a blank of any script becomes a space, a decimal
\* digit of any script its ASCII digit; {} marks a character int() rejects
int_transform(c) ==
    IF c = 0 THEN {}
    ELSE IF c < 128 THEN {c}
    ELSE IF isspace(c) THEN {32}
    ELSE IF isdecimal_char(c) THEN {48 + decimal_value(c)}
    ELSE {}

RECURSIVE int_lskip(_)
int_lskip(s) ==
    IF s # <<>> /\ Head(s) \in (9..13) \cup {32} THEN int_lskip(Tail(s)) ELSE s

RECURSIVE int_rskip(_)
int_rskip(s) ==
    IF s # <<>> /\ s[Len(s)] \in (9..13) \cup {32}
    THEN int_rskip(SubSeq(s, 1, Len(s) - 1)) ELSE s

RECURSIVE digits_value(_)
digits_value(s) ==
    IF s = <<>> THEN 0
    ELSE IF s[Len(s)] = 95 THEN digits_value(SubSeq(s, 1, Len(s) - 1))
    ELSE 10 * digits_value(SubSeq(s, 1, Len(s) - 1)) + (s[Len(s)] - 48)

\* int() of a sign and the digits after it
int_of_digits(sign, digits) ==
    IF \/ digits = <<>>
       \/ \E i \in DOMAIN digits : digits[i] \notin (48..57) \cup {95}
       \/ digits[1] = 95
       \/ digits[Len(digits)] = 95
       \/ \E i \in 1..(Len(digits) - 1) : digits[i] = 95 /\ digits[i + 1] = 95
       \/ Cardinality({i \in DOMAIN digits : digits[i] # 95}) > int_max_str_digits
    THEN {}
    ELSE {(IF sign = 45 THEN -1 ELSE 1) * digits_value(digits)}

\* int() of the text between the blanks
int_of_body(body) ==
    IF body # <<>> /\ body[1] \in {43, 45}
    THEN int_of_digits(body[1], Tail(body))
    ELSE int_of_digits(43, body)

\* int() of the characters the first pass made of the text
int_of_codes(codes) ==
    IF \E i \in DOMAIN codes : codes[i] = {} THEN {}
    ELSE int_of_body(int_rskip(int_lskip(
             [i \in DOMAIN codes |-> CHOOSE c \in codes[i] : TRUE])))

\* int(s) of a str: {} for ValueError, else the value
int_of_str(s) == int_of_codes([i \in DOMAIN s |-> int_transform(s[i])])

Hex == <<48, 49, 50, 51, 52, 53, 54, 55, 56, 57, 97, 98, 99, 100, 101, 102>>

\* n in lower-case hexadecimal, width digits
RECURSIVE HexDigits(_, _)
HexDigits(n, width) ==
    IF width = 0 THEN <<>> ELSE HexDigits(n \div 16, width - 1) \o <<Hex[(n % 16) + 1]>>

\* repr() of one character of a str inside quote
repr_char(c, quote) ==
    IF c = quote \/ c = 92 THEN <<92, c>>
    ELSE IF c = 9 THEN <<92, 116>>
    ELSE IF c = 10 THEN <<92, 110>>
    ELSE IF c = 13 THEN <<92, 114>>
    ELSE IF c < 32 \/ c = 127 THEN <<92, 120>> \o HexDigits(c, 2)
    ELSE IF c < 127 THEN <<c>>
    ELSE IF ~InRanges(c, NonPrintableRanges) THEN <<c>>
    ELSE IF c <= 255 THEN <<92, 120>> \o HexDigits(c, 2)
    ELSE IF c <= 65535 THEN <<92, 117>> \o HexDigits(c, 4)
    ELSE <<92, 85>> \o HexDigits(c, 8)

RECURSIVE repr_chars(_, _)
repr_chars(s, quote) ==
    IF s = <<>> THEN <<>> ELSE repr_char(Head(s), quote) \o repr_chars(Tail(s), quote)

\* repr() of a str
repr_str(s) ==
    LET quote == IF (\E i \in DOMAIN s : s[i] = 39) /\ ~(\E i \in DOMAIN s : s[i] = 34)
                 THEN 34 ELSE 39
    IN  <<quote>> \o repr_chars(s, quote) \o <<quote>>

----------------------------------------------------------------------------
\* Decoded JSON documents and what the interpreter does with them.
\* A value is [t |-> type, v |-> payload]:
\*   null; bool with TRUE/FALSE; int with the integer; str with its text;
\*   list with the tuple of its items; dict with the tuple of <<key, value>>
\*   pairs in insertion order, keys being texts, no key twice;
\*   float with [repr |-> repr(f), int |-> int(f) as a result, whole |-> f
\*   is finite and has no fractional part].

JNull == [t |-> "null", v |-> 0]

JBool(b) == [t |-> "bool", v |-> b]

JInt(n) == [t |-> "int", v |-> n]

JStr(s) == [t |-> "str", v |-> s]

JList(items) == [t |-> "list", v |-> items]

JDict(pairs) == [t |-> "dict", v |-> pairs]

\* The outcome of a call: the value it returns, or the exception it raises.
Ok(x) == [exc |-> "", msg |-> <<>>, val |-> x]

Raised(exc, msg) == [exc |-> exc, msg |-> msg, val |-> 0]

\* a finite float
JFloat(repr, trunc, whole) ==
    [t |-> "float", v |-> [repr |-> repr, int |-> Ok(trunc), whole |-> whole]]

\* NaN, Infinity and -Infinity, which json.loads accepts
JNaN == [t |-> "float", v |-> [repr |-> Text("nan"), int |-> Raised("ValueError", <<>>), whole |-> FALSE]]

JInfinity == [t |-> "float", v |-> [repr |-> Text("inf"), int |-> Raised("OverflowError", <<>>), whole |-> FALSE]]

JMinusInfinity == [t |-> "float", v |-> [repr |-> Text("-inf"), int |-> Raised("OverflowError", <<>>), whole |-> FALSE]]

\* key in d, d[key] for a dict
dict_has(d, key) == \E i \in DOMAIN d.v : d.v[i][1] = key

dict_value(d, key) == d.v[CHOOSE i \in DOMAIN d.v : d.v[i][1] = key][2]

\* obj[key] for a str key
getitem(obj, key) ==
    IF obj.t = "dict"
    THEN (IF dict_has(obj, key) THEN Ok(dict_value(obj, key)) ELSE Raised("KeyError", <<>>))
    ELSE Raised("TypeError", <<>>)

\* obj[0]
getitem_0(obj) ==
    IF obj.t = "list"
    THEN (IF obj.v # <<>> THEN Ok(obj.v[1]) ELSE Raised("IndexError", <<>>))
    ELSE IF obj.t = "str"
    THEN (IF obj.v # <<>> THEN Ok(JStr(<<obj.v[1]>>)) ELSE Raised("IndexError", <<>>))
    ELSE IF obj.t = "dict" THEN Raised("KeyError", <<>>)
    ELSE Raised("TypeError", <<>>)

\* obj.get(key, default)
attr_get(obj, key, default) ==
    IF obj.t = "dict"
    THEN Ok(IF dict_has(obj, key) THEN dict_value(obj, key) ELSE default)
    ELSE Raised("AttributeError", <<>>)

\* the items a for loop over obj visits
iterate(obj) ==
    IF obj.t = "list" THEN Ok(obj.v)
    ELSE IF obj.t = "str" THEN Ok([i \in DOMAIN obj.v |-> JStr(<<obj.v[i]>>)])
    ELSE IF obj.t = "dict" THEN Ok([i \in DOMAIN obj.v |-> JStr(obj.v[i][1])])
    ELSE Raised("TypeError", <<>>)

\* bool(obj)
truthy(obj) ==
    IF obj.t = "null" THEN FALSE
    ELSE IF obj.t = "bool" THEN obj.v
    ELSE IF obj.t = "int" THEN obj.v # 0
    ELSE IF obj.t = "float" THEN ~(obj.v.whole /\ obj.v.int.val = 0)
    ELSE obj.v # <<>>

\* int(obj)
py_int(obj) ==
    LET converted(values) ==
            IF values = {} THEN Raised("ValueError", <<>>)
            ELSE Ok(CHOOSE n \in values : TRUE)
    IN  IF obj.t = "int" THEN Ok(obj.v)
        ELSE IF obj.t = "bool" THEN Ok(IF obj.v THEN 1 ELSE 0)
        ELSE IF obj.t = "float" THEN obj.v.int
        ELSE IF obj.t = "str" THEN converted(int_of_str(obj.v))
        ELSE Raised("TypeError", <<>>)

\* repr(obj)
RECURSIVE py_repr(_)
RECURSIVE repr_items(_)
RECURSIVE repr_pairs(_)
py_repr(obj) ==
    IF obj.t = "null" THEN Text("None")
    ELSE IF obj.t = "bool" THEN (IF obj.v THEN Text("True") ELSE Text("False"))
    ELSE IF obj.t = "int" THEN IntToStr(obj.v)
    ELSE IF obj.t = "float" THEN obj.v.repr
    ELSE IF obj.t = "str" THEN repr_str(obj.v)
    ELSE IF obj.t = "list" THEN <<91>> \o repr_items(obj.v) \o <<93>>
    ELSE <<123>> \o repr_pairs(obj.v) \o <<125>>

repr_items(items) ==
    IF items = <<>> THEN <<>>
    ELSE IF Len(items) = 1 THEN py_repr(items[1])
    ELSE py_repr(items[1]) \o <<44, 32>> \o repr_items(Tail(items))

repr_pairs(pairs) ==
    IF pairs = <<>> THEN <<>>
    ELSE py_repr(JStr(pairs[1][1])) \o <<58, 32>> \o py_repr(pairs[1][2])
         \o (IF Len(pairs) = 1 THEN <<>> ELSE <<44, 32>> \o repr_pairs(Tail(pairs)))

\* str(obj)
py_str(obj) == IF obj.t = "str" THEN obj.v ELSE py_repr(obj)

\* hash(obj) succeeds
hashable(obj) == obj.t \notin {"list", "dict"}

\* a == b for two hashable values, as a dict compares its keys
key_eq(a, b) ==
    LET whole(x) == x.t \in {"bool", "int"} \/ (x.t = "float" /\ x.v.whole)
        number(x) == IF x.t = "bool" THEN (IF x.v THEN 1 ELSE 0)
                     ELSE IF x.t = "int" THEN x.v ELSE x.v.int.val
    IN  IF a.t = "null" \/ b.t = "null" THEN a.t = b.t
        ELSE IF a.t = "str" \/ b.t = "str" THEN a.t = b.t /\ a.v = b.v
        ELSE IF whole(a) /\ whole(b) THEN number(a) = number(b)
        ELSE a.t = "float" /\ b.t = "float" /\ a.v.repr = b.v.repr

----------------------------------------------------------------------------
\* Calendar dates: datetime.date as [year, month, day].

Date(y, m, d) == [year |-> y, month |-> m, day |-> d]

IsLeap(y) == (y % 4 = 0) /\ ((y % 100 # 0) \/ (y % 400 = 0))

DaysInMonth(y, m) ==
    IF m = 2 THEN (IF IsLeap(y) THEN 29 ELSE 28)
    ELSE IF m \in {4, 6, 9, 11} THEN 30 ELSE 31

\* a < b on dates
DateLT(a, b) ==
    \/ a.year < b.year
    \/ a.year = b.year /\ a.month < b.month
    \/ a.year = b.year /\ a.month = b.month /\ a.day < b.day

PrevDay(d) ==
    IF d.day > 1 THEN Date(d.year, d.month, d.day - 1)
    ELSE IF d.month > 1
         THEN Date(d.year, d.month - 1, DaysInMonth(d.year, d.month - 1))
         ELSE Date(d.year - 1, 12, 31)

\* the day after d
NextDay(d) ==
    IF d.day < DaysInMonth(d.year, d.month) THEN Date(d.year, d.month, d.day + 1)
    ELSE IF d.month < 12 THEN Date(d.year, d.month + 1, 1)
    ELSE Date(d.year + 1, 1, 1)

\* d - timedelta(days=n)
RECURSIVE MinusDays(_, _)
MinusDays(d, n) == IF n = 0 THEN d ELSE MinusDays(PrevDay(d), n - 1)

\* %m: 1[0-2]|0[1-9]|[1-9]
MonthFieldOk(f) ==
    \/ Len(f) = 2 /\ f[1] = 49 /\ f[2] \in 48..50
    \/ Len(f) = 2 /\ f[1] = 48 /\ f[2] \in 49..57
    \/ Len(f) = 1 /\ f[1] \in 49..57

\* %d: 3[0-1]|[1-2]\d|0[1-9]|[1-9]| [1-9], \d being a decimal digit of any
\* script
DayFieldOk(f) ==
    \/ Len(f) = 2 /\ f[1] = 51 /\ f[2] \in 48..49
    \/ Len(f) = 2 /\ f[1] \in 49..50 /\ isdecimal_char(f[2])
    \/ Len(f) = 2 /\ f[1] = 48 /\ f[2] \in 49..57
    \/ Len(f) = 1 /\ f[1] \in 49..57
    \/ Len(f) = 2 /\ f[1] = 32 /\ f[2] \in 49..57

\* %Y: \d\d\d\d
YearFieldOk(f) == Len(f) = 4 /\ \A i \in 1..4 : isdecimal_char(f[i])

\* int() of a field the pattern matched
FieldValue(f) == CHOOSE n \in int_of_str(f) : TRUE

\* the date of the numbers <<month, day, year>>, {} when there is no such day
strptime_date(n) ==
    IF n[3] >= 1 /\ n[2] <= DaysInMonth(n[3], n[1])
    THEN {Date(n[3], n[1], n[2])} ELSE {}

\* the pattern matched against the fields between the slashes
strptime_fields(f) ==
    IF Len(f) = 3 /\ MonthFieldOk(f[1]) /\ DayFieldOk(f[2]) /\ YearFieldOk(f[3])
    THEN strptime_date([i \in 1..3 |-> FieldValue(f[i])])
    ELSE {}

\* datetime.strptime(raw, "%m/%d/%Y").date(): {} stands for ValueError,
\* {d} for the date d.
strptime(raw) == strptime_fields(Split(raw, 47))

ZeroPad(s, width) == [i \in 1..(width - Len(s)) |-> 48] \o s

\* date.isoformat()
isoformat(d) ==
    ZeroPad(NatToStr(d.year), 4) \o <<45>> \o ZeroPad(NatToStr(d.month), 2)
        \o <<45>> \o ZeroPad(NatToStr(d.day), 2)

MonthNames ==
    <<Text("January"), Text("February"), Text("March"), Text("April"), Text("May"),
      Text("June"), Text("July"), Text("August"), Text("September"), Text("October"),
      Text("November"), Text("December")>>

\* today_est.strftime("%B").lower()
MonthSlug(d) == lower(MonthNames[d.month])

----------------------------------------------------------------------------
\* csv.reader with the default dialect (delimiter ',', quotechar '"',
\* doublequote, not strict) over StringIO(csv_text), and csv.DictReader.

\* csv.field_size_limit()
field_size_limit == 131072

\* One character c fed to the reader's state machine; c = -1 is the end of
\* the line.  p is [state, field, fields, error].
parse_process_char(p, c) ==
    LET eol == c = -1
        newline == c \in {10, 13}
        save(next) == [p EXCEPT !.state = next, !.field = <<>>,
                                !.fields = Append(p.fields, p.field)]
        add(next) == IF Len(p.field) >= field_size_limit
                     THEN [p EXCEPT !.error = TRUE]
                     ELSE [p EXCEPT !.state = next, !.field = Append(p.field, c)]
    IN  IF p.state = "START_RECORD" /\ eol THEN p
        ELSE IF p.state = "START_RECORD" /\ newline THEN [p EXCEPT !.state = "EAT_CRNL"]
        ELSE IF p.state \in {"START_RECORD", "START_FIELD"}
        THEN (IF eol THEN save("START_RECORD")
              ELSE IF newline THEN save("EAT_CRNL")
              ELSE IF c = 34 THEN [p EXCEPT !.state = "IN_QUOTED_FIELD"]
              ELSE IF c = 44 THEN save("START_FIELD")
              ELSE add("IN_FIELD"))
        ELSE IF p.state = "IN_FIELD"
        THEN (IF eol THEN save("START_RECORD")
              ELSE IF newline THEN save("EAT_CRNL")
              ELSE IF c = 44 THEN save("START_FIELD")
              ELSE add("IN_FIELD"))
        ELSE IF p.state = "IN_QUOTED_FIELD"
        THEN (IF eol THEN p
              ELSE IF c = 34 THEN [p EXCEPT !.state = "QUOTE_IN_QUOTED_FIELD"]
              ELSE add("IN_QUOTED_FIELD"))
        ELSE IF p.state = "QUOTE_IN_QUOTED_FIELD"
        THEN (IF eol THEN save("START_RECORD")
              ELSE IF c = 34 THEN add("IN_QUOTED_FIELD")
              ELSE IF c = 44 THEN save("START_FIELD")
              ELSE IF newline THEN save("EAT_CRNL")
              ELSE add("IN_FIELD"))
        ELSE \* EAT_CRNL
             (IF eol THEN [p EXCEPT !.state = "START_RECORD"]
              ELSE IF newline THEN p
              ELSE [p EXCEPT !.error = TRUE])

\* the first line of the text, its terminator included
first_line(text) ==
    LET i == Find(text, <<10>>, 1) IN IF i = 0 THEN text ELSE SubSeq(text, 1, i)

RECURSIVE parse_line(_, _)
parse_line(p, line) ==
    IF p.error THEN p
    ELSE IF line = <<>> THEN parse_process_char(p, -1)
    ELSE parse_line(parse_process_char(p, Head(line)), Tail(line))

\* next(reader) on the text not yet read: one record, which takes a further
\* line while a quoted field is open.  The result is
\* [status |-> "row" | "StopIteration" | "Error", row, rest].
RECURSIVE reader_lines(_, _)
\* after the line that left the machine in q, rest being unread
reader_fed(q, rest) ==
    IF q.error THEN [status |-> "Error", row |-> <<>>, rest |-> rest]
    ELSE IF q.state = "START_RECORD"
    THEN [status |-> "row", row |-> q.fields, rest |-> rest]
    ELSE reader_lines(q, rest)

reader_line(p, text, line) == reader_fed(parse_line(p, line), Drop(text, Len(line)))

reader_lines(p, text) ==
    IF text = <<>>
    THEN (IF p.field # <<>> \/ p.state = "IN_QUOTED_FIELD"
          THEN [status |-> "row", row |-> Append(p.fields, p.field), rest |-> <<>>]
          ELSE [status |-> "StopIteration", row |-> <<>>, rest |-> <<>>])
    ELSE reader_line(p, text, first_line(text))

reader_next(text) ==
    reader_lines([state |-> "START_RECORD", field |-> <<>>, fields |-> <<>>,
                  error |-> FALSE], text)

\* DictReader.__next__ after the header: the next record that is not []
RECURSIVE next_record(_)
skip_blank(r) == IF r.status = "row" /\ r.row = <<>> THEN next_record(r.rest) ELSE r

next_record(text) == skip_blank(reader_next(text))

\* (row.get(name) or ""): the DictReader maps the field names to the cells of
\* the record in order, a later column of the same name replacing an earlier
\* one, and then maps the names of the columns the record lacks to None
RowGet(names, row, name) ==
    LET columns == {i \in DOMAIN names : names[i] = name}
    IN  IF columns = {} \/ (\E i \in columns : i > Len(row)) THEN <<>>
        ELSE row[CHOOSE i \in columns : \A j \in columns : j <= i]

----------------------------------------------------------------------------
\* parse_csv.

\* the days before today that the window still covers
window_days == 2

\* the window starting one day too early
within_window_ThreeDays(row_date, today_) ==
    ~DateLT(row_date, MinusDays(today_, window_days + 1))

within_window(row_date, today_) ==
    LET window_start == MinusDays(today_, window_days)
    IN  ~DateLT(row_date, window_start)

Listing(ticker, date, company, exchange, flag) ==
    [ticker |-> ticker, date |-> date, company |-> company,
     exchange |-> exchange, flag |-> flag]

STOCK_SYMBOL == Text("Stock Symbol")

DATE == Text("Date")

COMPANY == Text("Company")

EXCHANGE == Text("Exchange")

N_E == Text("N/E")

\* The dedup map is the tuple of its Listings in insertion order, each under
\* its ticker.
dedup_has(d, ticker) == \E i \in DOMAIN d : d[i].ticker = ticker

\* dedup.get(ticker)
dedup_get(d, ticker) == d[CHOOSE i \in DOMAIN d : d[i].ticker = ticker]

\* dedup[ticker] = listing
dedup_put(d, listing) ==
    IF dedup_has(d, listing.ticker)
    THEN [i \in DOMAIN d |-> IF d[i].ticker = listing.ticker THEN listing ELSE d[i]]
    ELSE Append(d, listing)

\* replacing on an equal date too
ShouldStore_NotStrict(d, ticker, row_date) ==
    ~dedup_has(d, ticker) \/ ~DateLT(dedup_get(d, ticker).date, row_date)

\* existing is None or row_date < existing.date
ShouldStore(d, ticker, row_date) ==
    ~dedup_has(d, ticker) \/ DateLT(row_date, dedup_get(d, ticker).date)

\* lines 260-277: the row has a ticker and a date
row_listed(d, names, row, today_, ticker, row_date) ==
    IF ~within_window(row_date, today_) THEN d
    ELSE IF ShouldStore(d, ticker, row_date)
         THEN dedup_put(d,
                  Listing(ticker, row_date,
                          strip(RowGet(names, row, COMPANY)),
                          strip(RowGet(names, row, EXCHANGE)),
                          upper(strip(RowGet(names, row, N_E)))))
         ELSE d

\* lines 253-258: the row has a ticker; parsed is what strptime made of its
\* date
row_dated(d, names, row, today_, ticker, parsed) ==
    IF parsed = {} THEN d
    ELSE row_listed(d, names, row, today_, ticker, CHOOSE x \in parsed : TRUE)

\* lines 250-255
row_named(d, names, row, today_, ticker) ==
    IF ticker = <<>> THEN d
    ELSE row_dated(d, names, row, today_, ticker,
                   strptime(strip(RowGet(names, row, DATE))))

\* the loop body without the skip of rows that have no ticker
RowStep_KeepsBlankTicker(d, names, row, today_) ==
    row_dated(d, names, row, today_, upper(strip(RowGet(names, row, STOCK_SYMBOL))),
              strptime(strip(RowGet(names, row, DATE))))

\* The body of the row loop: the dedup map after one more row.
RowStep(d, names, row, today_) ==
    row_named(d, names, row, today_, upper(strip(RowGet(names, row, STOCK_SYMBOL))))

\* the row loop over rows already read
RECURSIVE parse_records(_, _, _, _)
parse_records(d, names, records, today_) ==
    IF records = <<>> THEN d
    ELSE parse_records(RowStep(d, names, Head(records), today_), names,
                       Tail(records), today_)

\* the row loop from the first record after the header on, r being what the
\* reader gives next
RECURSIVE parse_rows(_, _, _, _)
parse_row(d, names, r, today_) ==
    IF r.status = "StopIteration" THEN Ok(d)
    ELSE IF r.status = "Error" THEN Raised("csv.Error", <<>>)
    ELSE parse_rows(RowStep(d, names, r.row, today_), names, r.rest, today_)

parse_rows(d, names, text, today_) == parse_row(d, names, next_record(text), today_)

\* the rows after the header the DictReader read first
parse_after(header, today_) ==
    IF header.status = "StopIteration" THEN Ok(<<>>)
    ELSE IF header.status = "Error" THEN Raised("csv.Error", <<>>)
    ELSE parse_rows(<<>>, header.row, header.rest, today_)

\* parse_csv(csv_text, today): the dedup map, or the csv.Error of the reader
parse_csv(csv_text, today_) == parse_after(reader_next(csv_text), today_)
----------------------------------------------------------------------------
\* Endpoint resolution: the target year.

SetMax(S) == CHOOSE x \in S : \A y \in S : y <= x

SetMin(S) == CHOOSE x \in S : \A y \in S : x <= y

\* sorted(S) without reverse=True
RECURSIVE SortedDesc_Ascending(_)
SortedDesc_Ascending(S) ==
    IF S = {} THEN <<>> ELSE <<SetMin(S)>> \o SortedDesc_Ascending(S \ {SetMin(S)})

\* sorted(S, reverse=True)
RECURSIVE SortedDesc(_)
SortedDesc(S) ==
    IF S = {} THEN <<>> ELSE <<SetMax(S)>> \o SortedDesc(S \ {SetMax(S)})

\* the least of a non-empty set of indexes
FirstIndex(I) == CHOOSE i \in I : \A j \in I : i <= j

\* {int(value) for value in year_strings}: the set, or the exception of the
\* first item int() rejects
int_add(first, rest) ==
    IF first.exc # "" THEN first
    ELSE IF rest.exc # "" THEN rest
    ELSE Ok({first.val} \cup rest.val)

RECURSIVE int_set(_)
int_set(items) ==
    IF items = <<>> THEN Ok({})
    ELSE int_add(py_int(Head(items)), int_set(Tail(items)))

\* the two loops over the sorted years and the fallback
choose_year(years, current) ==
    LET current_at == {i \in DOMAIN years : years[i] = current}
        below_at == {i \in DOMAIN years : years[i] < current}
    IN  IF current_at # {} THEN years[FirstIndex(current_at)]
        ELSE IF below_at # {} THEN years[FirstIndex(below_at)]
        ELSE years[1]

\* lines 155-170 for the set of years, or the exception of the comprehension
select_from(ints, current) ==
    IF ints.exc # "" THEN ints
    ELSE IF ints.val = {}
    THEN Raised("RuntimeError", Text("No available years returned by OCC."))
    ELSE Ok(choose_year(SortedDesc(ints.val), current))

\* line 155 for the items the loop over the document visits
select_items(items, current) ==
    IF items.exc # "" THEN items ELSE select_from(int_set(items.val), current)

\* determine_target_year after the years document is decoded: the year, the
\* RuntimeError for no years, or the TypeError, ValueError or OverflowError
\* of the comprehension
select_target_year(year_doc, current) == select_items(iterate(year_doc), current)
----------------------------------------------------------------------------
\* urllib.parse: urlsplit, urlparse, urlunparse, urljoin, unquote, parse_qs.

uses_relative ==
    {Text(""), Text("ftp"), Text("http"), Text("gopher"), Text("nntp"), Text("imap"),
     Text("wais"), Text("file"), Text("https"), Text("shttp"), Text("mms"),
     Text("prospero"), Text("rtsp"), Text("rtsps"), Text("rtspu"), Text("sftp"),
     Text("svn"), Text("svn+ssh"), Text("ws"), Text("wss")}

uses_netloc ==
    {Text(""), Text("ftp"), Text("http"), Text("gopher"), Text("nntp"), Text("telnet"),
     Text("imap"), Text("wais"), Text("file"), Text("mms"), Text("https"), Text("shttp"),
     Text("snews"), Text("prospero"), Text("rtsp"), Text("rtsps"), Text("rtspu"),
     Text("rsync"), Text("svn"), Text("svn+ssh"), Text("sftp"), Text("nfs"), Text("git"),
     Text("git+ssh"), Text("ws"), Text("wss")}

uses_params ==
    {Text(""), Text("ftp"), Text("hdl"), Text("prospero"), Text("http"), Text("imap"),
     Text("https"), Text("shttp"), Text("rtsp"), Text("rtsps"), Text("rtspu"), Text("sip"),
     Text("sips"), Text("mms"), Text("sftp"), Text("tel")}

\* letters, digits, + - .
scheme_chars == (97..122) \cup (65..90) \cup (48..57) \cup {43, 45, 46}

HexDigitChars == (48..57) \cup (65..70) \cup (97..102)

\* url.lstrip(_WHATWG_C0_CONTROL_OR_SPACE)
RECURSIVE lstrip_c0(_)
lstrip_c0(s) == IF s # <<>> /\ Head(s) \in 0..32 THEN lstrip_c0(Tail(s)) ELSE s

\* ipaddress.IPv4Address(s) succeeds
IPv4Valid(s) ==
    LET octets == Split(s, 46)
    IN  /\ Len(octets) = 4
        /\ \A i \in 1..4 :
              LET o == octets[i]
              IN  /\ o # <<>>
                  /\ \A j \in DOMAIN o : o[j] \in 48..57
                  /\ Len(o) <= 3
                  /\ (o = <<48>> \/ o[1] # 48)
                  /\ digits_value(o) <= 255

\* IPv6Address._parse_hextet succeeds
HextetOk(h) == h # <<>> /\ Len(h) <= 4 /\ \A j \in DOMAIN h : h[j] \in HexDigitChars

\* the hextets of an address split at the colons, inner being the places of
\* its "::"
IPv6Hextets(parts, inner) ==
    LET n == Len(parts)
        skip == CHOOSE i \in inner : TRUE
        parts_hi == IF parts[1] = <<>> THEN skip - 2 ELSE skip - 1
        parts_lo == IF parts[n] = <<>> THEN n - skip - 1 ELSE n - skip
    IN  /\ n <= 9
        /\ Cardinality(inner) <= 1
        /\ IF inner # {}
           THEN /\ parts[1] = <<>> => parts_hi = 0
                /\ parts[n] = <<>> => parts_lo = 0
                /\ 8 - (parts_hi + parts_lo) >= 1
                /\ \A i \in 1..parts_hi : HextetOk(parts[i])
                /\ \A i \in (n - parts_lo + 1)..n : HextetOk(parts[i])
           ELSE /\ n = 8
                /\ \A i \in 1..n : HextetOk(parts[i])

IPv6Compressed(parts) ==
    IPv6Hextets(parts, {i \in 2..(Len(parts) - 1) : parts[i] = <<>>})

\* an IPv4 suffix stands for two hextets
IPv6Address(split, dotted) ==
    /\ Len(split) >= 3
    /\ dotted => IPv4Valid(split[Len(split)])
    /\ IPv6Compressed(IF dotted
                      THEN SubSeq(split, 1, Len(split) - 1) \o <<<<48>>, <<48>>>>
                      ELSE split)

IPv6Colons(split) == IPv6Address(split, Contains(split[Len(split)], <<46>>))

\* the address and the scope id after the "%" at pct
IPv6Scoped(s, pct) ==
    /\ pct = 0 \/ (Drop(s, pct) # <<>> /\ ~Contains(Drop(s, pct), <<37>>))
    /\ pct # 1
    /\ s # <<>>
    /\ IPv6Colons(Split(IF pct = 0 THEN s ELSE SubSeq(s, 1, pct - 1), 58))

\* ipaddress.IPv6Address(s) succeeds
IPv6Valid(s) == IPv6Scoped(s, Find(s, <<37>>, 1))

\* _check_bracketed_host returns: v<hex digits>.<something>, or an IPv6
\* address
BracketedHostOk(host) ==
    LET future(hexes) ==
            /\ hexes # {}
            /\ Len(host) >= Cardinality(hexes) + 3
            /\ host[Cardinality(hexes) + 2] = 46
    IN  IF host # <<>> /\ host[1] = 118
        THEN future({k \in 2..Len(host) : \A j \in 2..k : host[j] \in HexDigitChars})
        ELSE IPv6Valid(host)

\* the text of after up to the mark at end
UpTo(after, end) == IF end = 0 THEN after ELSE SubSeq(after, 1, end - 1)

\* the host between the brackets is not one _check_bracketed_host accepts
BracketedInvalid(after) == ~BracketedHostOk(UpTo(after, Find(after, <<93>>, 1)))

BracketsInvalid(netloc, open, close) ==
    \/ (open # 0) # (close # 0)
    \/ open # 0 /\ close # 0 /\ BracketedInvalid(Drop(netloc, open))

\* the checks of urlsplit that end in ValueError
NetlocInvalid(netloc) ==
    \/ BracketsInvalid(netloc, Find(netloc, <<91>>, 1), Find(netloc, <<93>>, 1))
    \/ \E i \in DOMAIN netloc : netloc[i] \in NfkcDelimiterChars

\* urlsplit once the fragment is cut off: the query after the "?" at mark
urlsplit_query(scheme, netloc, u4, fragment, mark) ==
    [error |-> NetlocInvalid(netloc), scheme |-> scheme, netloc |-> netloc,
     path |-> IF mark = 0 THEN u4 ELSE SubSeq(u4, 1, mark - 1),
     query |-> IF mark = 0 THEN <<>> ELSE Drop(u4, mark),
     fragment |-> fragment]

urlsplit_path(scheme, netloc, u4, fragment) ==
    urlsplit_query(scheme, netloc, u4, fragment, Find(u4, <<63>>, 1))

\* urlsplit once the netloc is cut off: the fragment after the "#" at hash
urlsplit_fragment(scheme, netloc, u3, hash) ==
    urlsplit_path(scheme, netloc,
                  IF hash = 0 THEN u3 ELSE SubSeq(u3, 1, hash - 1),
                  IF hash = 0 THEN <<>> ELSE Drop(u3, hash))

urlsplit_rest(scheme, netloc, u3) ==
    urlsplit_fragment(scheme, netloc, u3, Find(u3, <<35>>, 1))

\* _splitnetloc(url, 2): the netloc ends at the first of / ? #
urlsplit_netloc(scheme, u2, delim) ==
    urlsplit_rest(scheme, SubSeq(u2, 3, delim - 1), Drop(u2, delim - 1))

\* urlsplit once the scheme is cut off
urlsplit_after(scheme, u2, delims) ==
    IF Take(u2, 2) = <<47, 47>>
    THEN urlsplit_netloc(scheme, u2,
                         IF delims = {} THEN Len(u2) + 1
                         ELSE CHOOSE j \in delims : \A k \in delims : j <= k)
    ELSE urlsplit_rest(scheme, <<>>, u2)

urlsplit_scheme(scheme, u2) ==
    urlsplit_after(scheme, u2, {j \in 3..Len(u2) : u2[j] \in {47, 63, 35}})

\* the scheme before the ":" at colon, when it is one
urlsplit_colon(u1, default_scheme, colon) ==
    IF /\ colon >= 2
       /\ u1[1] \in (65..90) \cup (97..122)
       /\ \A j \in 1..(colon - 1) : u1[j] \in scheme_chars
    THEN urlsplit_scheme(lower(SubSeq(u1, 1, colon - 1)), Drop(u1, colon))
    ELSE urlsplit_scheme(default_scheme, u1)

urlsplit_cleaned(u1, default_scheme) ==
    urlsplit_colon(u1, default_scheme, Find(u1, <<58>>, 1))

\* urlsplit(url, scheme): [error, scheme, netloc, path, query, fragment],
\* error standing for ValueError
urlsplit(url, default_scheme) ==
    urlsplit_cleaned(Remove(lstrip_c0(url), {9, 13, 10}), default_scheme)

\* _splitparams(url): <<path, params>>
splitparams(path) ==
    LET slash == RFind(path, <<47>>)
        semi == Find(path, <<59>>, IF slash = 0 THEN 1 ELSE slash)
    IN  IF semi = 0 THEN <<path, <<>>>>
        ELSE <<SubSeq(path, 1, semi - 1), Drop(path, semi)>>

urlparse_result(s, split) ==
    [error |-> s.error, scheme |-> s.scheme, netloc |-> s.netloc,
     path |-> split[1], params |-> split[2], query |-> s.query,
     fragment |-> s.fragment]

urlparse_params(s) ==
    urlparse_result(s, IF s.scheme \in uses_params /\ Contains(s.path, <<59>>)
                       THEN splitparams(s.path) ELSE <<s.path, <<>>>>)

\* urlparse(url, scheme): urlsplit and the params of the last path segment
urlparse(url, default_scheme) == urlparse_params(urlsplit(url, default_scheme))

\* urlunsplit(scheme, netloc, url, query, fragment)
urlunsplit(scheme, netloc, u1, query, fragment) ==
    (IF scheme # <<>> THEN scheme \o <<58>> ELSE <<>>)
        \o (IF netloc # <<>>
                \/ (scheme # <<>> /\ scheme \in uses_netloc /\ Take(u1, 2) # <<47, 47>>)
            THEN <<47, 47>> \o netloc
                     \o (IF u1 # <<>> /\ u1[1] # 47 THEN <<47>> \o u1 ELSE u1)
            ELSE u1)
        \o (IF query # <<>> THEN <<63>> \o query ELSE <<>>)
        \o (IF fragment # <<>> THEN <<35>> \o fragment ELSE <<>>)

urlunparse(scheme, netloc, path, params, query, fragment) ==
    urlunsplit(scheme, netloc,
               IF params # <<>> THEN path \o <<59>> \o params ELSE path,
               query, fragment)

\* the loop of urljoin over the path segments
RECURSIVE resolve(_, _)
resolve(segments, resolved) ==
    IF segments = <<>> THEN resolved
    ELSE IF Head(segments) = <<46, 46>>
    THEN resolve(Tail(segments),
                 IF resolved = <<>> THEN <<>> ELSE SubSeq(resolved, 1, Len(resolved) - 1))
    ELSE IF Head(segments) = <<46>> THEN resolve(Tail(segments), resolved)
    ELSE resolve(Tail(segments), Append(resolved, Head(segments)))

\* filter(None, segments)
RECURSIVE nonempty(_)
nonempty(segments) ==
    IF segments = <<>> THEN <<>>
    ELSE IF Head(segments) = <<>> THEN nonempty(Tail(segments))
    ELSE <<Head(segments)>> \o nonempty(Tail(segments))

\* the base's path without its last segment
urljoin_base(split) ==
    IF split[Len(split)] # <<>> THEN SubSeq(split, 1, Len(split) - 1) ELSE split

\* the segments of a relative path after those of the base
urljoin_filtered(joined) ==
    IF Len(joined) <= 2 THEN joined
    ELSE <<joined[1]>> \o nonempty(SubSeq(joined, 2, Len(joined) - 1))
             \o <<joined[Len(joined)]>>

urljoin_segments(b, u) ==
    IF Take(u.path, 1) = <<47>> THEN Split(u.path, 47)
    ELSE urljoin_filtered(urljoin_base(Split(b.path, 47)) \o Split(u.path, 47))

urljoin_walk(segs) ==
    IF segs[Len(segs)] \in {<<46>>, <<46, 46>>}
    THEN Append(resolve(segs, <<>>), <<>>) ELSE resolve(segs, <<>>)

urljoin_rooted(path) == IF path = <<>> THEN <<47>> ELSE path

urljoin_resolved(b, u) ==
    urljoin_rooted(Join(urljoin_walk(urljoin_segments(b, u)), <<47>>))

\* urljoin once both are parsed
urljoin_parsed(url, b, u, with_netloc, childless) ==
    IF b.error \/ u.error THEN Raised("ValueError", <<>>)
    ELSE IF u.scheme # b.scheme \/ u.scheme \notin uses_relative THEN Ok(url)
    ELSE Ok(urlunparse(
             u.scheme,
             IF with_netloc /\ u.netloc = <<>> THEN b.netloc ELSE u.netloc,
             IF with_netloc /\ u.netloc # <<>> THEN u.path
             ELSE IF childless THEN b.path ELSE urljoin_resolved(b, u),
             IF with_netloc /\ u.netloc # <<>> THEN u.params
             ELSE IF childless THEN b.params ELSE u.params,
             IF with_netloc /\ u.netloc # <<>> THEN u.query
             ELSE IF childless /\ u.query = <<>> THEN b.query ELSE u.query,
             u.fragment))

urljoin_relative(url, b, u) ==
    urljoin_parsed(url, b, u, u.scheme \in uses_netloc,
                   u.path = <<>> /\ u.params = <<>>)

urljoin_based(url, b) == urljoin_relative(url, b, urlparse(url, b.scheme))

\* urljoin(base, url) for a str url that is not empty: Ok(text), or
\* ValueError
urljoin(base, url) == urljoin_based(url, urlparse(base, <<>>))

\* the first byte of an escaped run: a %XX escape, or the character itself
HexValue(c) == IF c \in 48..57 THEN c - 48 ELSE IF c \in 65..70 THEN c - 55 ELSE c - 87

\* unquote_to_bytes over a run of ASCII characters
RECURSIVE unquote_to_bytes(_)
unquote_to_bytes(s) ==
    IF s = <<>> THEN <<>>
    ELSE IF s[1] = 37 /\ Len(s) >= 3 /\ s[2] \in HexDigitChars /\ s[3] \in HexDigitChars
    THEN <<16 * HexValue(s[2]) + HexValue(s[3])>> \o unquote_to_bytes(Drop(s, 3))
    ELSE <<s[1]>> \o unquote_to_bytes(Tail(s))

Continuation(b) == b \in 128..191

\* bytes.decode("utf-8", "replace"): an ill-formed sequence becomes U+FFFD
\* up to the first byte that cannot continue it
RECURSIVE utf8_decode(_)
utf8_decode(b) ==
    IF b = <<>> THEN <<>>
    ELSE LET b1 == b[1]
             n == Len(b)
             second_ok == n >= 2 /\
                 (IF b1 = 224 THEN b[2] \in 160..191
                  ELSE IF b1 = 237 THEN b[2] \in 128..159
                  ELSE IF b1 = 240 THEN b[2] \in 144..191
                  ELSE IF b1 = 244 THEN b[2] \in 128..143
                  ELSE Continuation(b[2]))
             third_ok == n >= 3 /\ Continuation(b[3])
             fourth_ok == n >= 4 /\ Continuation(b[4])
         IN  IF b1 < 128 THEN <<b1>> \o utf8_decode(Tail(b))
             ELSE IF b1 \in 194..223
             THEN (IF second_ok
                   THEN <<(b1 - 192) * 64 + (b[2] - 128)>> \o utf8_decode(Drop(b, 2))
                   ELSE <<65533>> \o utf8_decode(Tail(b)))
             ELSE IF b1 \in 224..239
             THEN (IF ~second_ok THEN <<65533>> \o utf8_decode(Tail(b))
                   ELSE IF ~third_ok THEN <<65533>> \o utf8_decode(Drop(b, 2))
                   ELSE <<(b1 - 224) * 4096 + (b[2] - 128) * 64 + (b[3] - 128)>>
                            \o utf8_decode(Drop(b, 3)))
             ELSE IF b1 \in 240..244
             THEN (IF ~second_ok THEN <<65533>> \o utf8_decode(Tail(b))
                   ELSE IF ~third_ok THEN <<65533>> \o utf8_decode(Drop(b, 2))
                   ELSE IF ~fourth_ok THEN <<65533>> \o utf8_decode(Drop(b, 3))
                   ELSE <<(b1 - 240) * 262144 + (b[2] - 128) * 4096
                              + (b[3] - 128) * 64 + (b[4] - 128)>>
                            \o utf8_decode(Drop(b, 4)))
             ELSE <<65533>> \o utf8_decode(Tail(b))

\* the length of the longest prefix of s made of ASCII characters (ascii
\* TRUE) or of others (ascii FALSE)
RunLength(s, ascii) ==
    LET stops == {i \in DOMAIN s : (s[i] < 128) # ascii}
    IN  IF stops = {} THEN Len(s) ELSE (CHOOSE i \in stops : \A j \in stops : i <= j) - 1

\* the runs of ASCII characters are unquoted and decoded one by one
RECURSIVE unquote_runs(_)
unquote_runs(s) ==
    IF s = <<>> THEN <<>>
    ELSE IF s[1] < 128
    THEN LET n == RunLength(s, TRUE)
         IN  utf8_decode(unquote_to_bytes(SubSeq(s, 1, n))) \o unquote_runs(Drop(s, n))
    ELSE LET n == RunLength(s, FALSE)
         IN  SubSeq(s, 1, n) \o unquote_runs(Drop(s, n))

\* unquote(string)
unquote(s) == IF ~Contains(s, <<37>>) THEN s ELSE unquote_runs(s)

\* s.replace("+", " ")
PlusToSpace(s) == [i \in DOMAIN s |-> IF s[i] = 43 THEN 32 ELSE s[i]]

\* parse_qsl(qs): the <<name, value>> pairs with a value that is not blank
RECURSIVE parse_qsl_fields(_)
parse_qsl_fields(fields) ==
    IF fields = <<>> THEN <<>>
    ELSE LET f == Head(fields)
             eq == Find(f, <<61>>, 1)
         IN  IF eq = 0 \/ eq = Len(f) THEN parse_qsl_fields(Tail(fields))
             ELSE <<<<unquote(PlusToSpace(SubSeq(f, 1, eq - 1))),
                      unquote(PlusToSpace(Drop(f, eq)))>>>>
                      \o parse_qsl_fields(Tail(fields))

parse_qsl(qs) == IF qs = <<>> THEN <<>> ELSE parse_qsl_fields(Split(qs, 38))

\* parse_qs(qs).get(name): the values of name in order, <<>> for None
RECURSIVE qs_values(_, _)
qs_values(pairs, name) ==
    IF pairs = <<>> THEN <<>>
    ELSE IF Head(pairs)[1] = name THEN <<Head(pairs)[2]>> \o qs_values(Tail(pairs), name)
    ELSE qs_values(Tail(pairs), name)

\* line 215
ts_year_int(value) == IF value = {} THEN Raised("ValueError", <<>>) ELSE Ok(value)

\* lines 210-216 for the values of ts
ts_year_of(ts_values) ==
    IF ts_values = <<>> THEN Ok({})
    ELSE IF Len(ts_values[1]) >= 4 /\ isdigit(Take(ts_values[1], 4))
    THEN ts_year_int(int_of_str(Take(ts_values[1], 4)))
    ELSE Ok({})

\* lines 208-210 for the parsed url
ts_year_query(parsed) ==
    IF parsed.error THEN Raised("ValueError", <<>>)
    ELSE ts_year_of(qs_values(parse_qsl(parsed.query), Text("ts")))

\* parse_ts_year(download_url): Ok({}) for None, Ok({year}), or ValueError
parse_ts_year(download_url) == ts_year_query(urlparse(download_url, <<>>))
----------------------------------------------------------------------------
\* Link locator.

BASE_URL == Text("https://www.theocc.com")

PERMAMENT_URL == Text("permamentUrl")

\* f"Could not find a CSV link containing '{month_key}' in this year's reports."
NotFoundMessage(month_key) ==
    Text("Could not find a CSV link containing '") \o month_key
        \o Text("' in this year's reports.")

\* month_key in perm_url without .lower()
entry_matches_CaseSensitive(perm_url, month_key) == Contains(perm_url, month_key)

\* month_key in perm_url.lower()
entry_matches(perm_url, month_key) == Contains(lower(perm_url), month_key)

\* the loop over the entries, then the not-found error
RECURSIVE find_entry(_, _)
\* lines 196-197 for the entry's URL
entry_test(entry_list, month_key, perm_url) ==
    IF perm_url.t # "str" THEN Raised("AttributeError", <<>>)
    ELSE IF entry_matches(perm_url.v, month_key) THEN urljoin(BASE_URL, perm_url.v)
    ELSE find_entry(Tail(entry_list), month_key)

\* line 195: entry.get("permamentUrl") or ""
entry_field(entry_list, month_key, got) ==
    IF got.exc # "" THEN got
    ELSE entry_test(entry_list, month_key,
                    IF truthy(got.val) THEN got.val ELSE JStr(<<>>))

find_entry(entry_list, month_key) ==
    IF entry_list = <<>> THEN Raised("RuntimeError", NotFoundMessage(month_key))
    ELSE entry_field(entry_list, month_key,
                     attr_get(Head(entry_list), PERMAMENT_URL, JNull))

\* the loop over what iterating the document gives
find_in(items, slug) ==
    IF items.exc # "" THEN items ELSE find_entry(items.val, slug \o Text(".csv"))

\* fetch_month_link after the report list is decoded: the URL, the
\* RuntimeError for no match, or the TypeError, AttributeError or ValueError
\* of the loop
find_month_link(report_doc, slug) == find_in(iterate(report_doc), slug)
----------------------------------------------------------------------------
\* Config discovery.

ENTRY_PAGE ==
    Text("https://www.theocc.com/market-data/market-data-reports/series-and-trading-data/new-listings")

\* the literal parts of the pattern
ID_LITERAL == Text("id=\"market-data\"")

DATA_API_LITERAL == Text("data-api=\"")

\* a character of the pattern matches c under re.IGNORECASE
CaseMatch(p, c) ==
    \E m \in IgnoreCaseMatches : m[1] = p /\ \E k \in DOMAIN m[2] : m[2][k] = c

\* the literal matches the page from position i on
MatchesAt(html, i, literal) ==
    /\ i + Len(literal) - 1 <= Len(html)
    /\ \A k \in DOMAIN literal : CaseMatch(literal[k], html[i + k - 1])

\* [^"]+ after data-api=" at p: the characters up to the next quote, <<>>
\* when there is none
EndpointAt(html, p) ==
    LET from == p + Len(DATA_API_LITERAL)
        quote == Find(html, <<34>>, from)
    IN  IF quote = 0 THEN <<>> ELSE SubSeq(html, from, quote - 1)

\* where data-api="..." can follow id="market-data" at i with no > between
DataApiAfter(html, i) ==
    LET from == i + Len(ID_LITERAL)
    IN  {p \in from..Len(html) :
            /\ \A j \in from..(p - 1) : html[j] # 62
            /\ MatchesAt(html, p, DATA_API_LITERAL)
            /\ EndpointAt(html, p) # <<>>}

\* the match that starts at the leftmost of starts
discover_match(html, starts) ==
    IF starts = {}
    THEN Raised("RuntimeError",
             Text("Unable to find the market-data configuration endpoint in the OCC page."))
    ELSE urljoin(BASE_URL, EndpointAt(html, SetMax(DataApiAfter(html, SetMin(starts)))))

\* re.search: the leftmost start, and from it the longest [^>]*
discover_config_endpoint(html) ==
    discover_match(html, {i \in DOMAIN html :
                             MatchesAt(html, i, ID_LITERAL) /\ DataApiAfter(html, i) # {}})

\* urljoin(BASE_URL, base_path) for any decoded value
build_endpoint_url(base_path) ==
    IF ~truthy(base_path) THEN Ok(BASE_URL)
    ELSE IF base_path.t # "str" THEN Raised("TypeError", <<>>)
    ELSE urljoin(BASE_URL, base_path.v)

\* obj[key] of the result of a subscript before it
then_getitem(got, key) == IF got.exc # "" THEN got ELSE getitem(got.val, key)

then_getitem_0(got) == IF got.exc # "" THEN got ELSE getitem_0(got.val)

\* config["submit"]["endpoints"][0]
submit_endpoint(config_doc) ==
    then_getitem_0(then_getitem(getitem(config_doc, Text("submit")), Text("endpoints")))

\* obj["endpoint"]["prod"]
endpoint_prod(obj) == then_getitem(getitem(obj, Text("endpoint")), Text("prod"))

\* obj["endpoint"]["prod"] of the result of a subscript before it
endpoint_prod_of(got) == IF got.exc # "" THEN got ELSE endpoint_prod(got.val)

\* the inner loop of locate_control: Ok(<<control>>), Ok(<<>>) when the
\* group has no such control, or the exception
RECURSIVE scan_controls(_, _)
control_named(controls, control_name, name) ==
    IF name.exc # "" THEN name
    ELSE IF name.val = JStr(control_name) THEN Ok(<<Head(controls)>>)
    ELSE scan_controls(Tail(controls), control_name)

scan_controls(controls, control_name) ==
    IF controls = <<>> THEN Ok(<<>>)
    ELSE control_named(controls, control_name,
                       attr_get(Head(controls), Text("name"), JNull))

\* for ... in value, of the result of a .get before it
then_iterate(got) == IF got.exc # "" THEN got ELSE iterate(got.val)

\* the outer loop of locate_control
RECURSIVE scan_groups(_, _)
group_next(groups, control_name, found) ==
    IF found.exc # "" \/ found.val # <<>> THEN found
    ELSE scan_groups(Tail(groups), control_name)

group_scan(groups, control_name, controls) ==
    IF controls.exc # "" THEN controls
    ELSE group_next(groups, control_name, scan_controls(controls.val, control_name))

scan_groups(groups, control_name) ==
    IF groups = <<>> THEN Ok(<<>>)
    ELSE group_scan(groups, control_name,
                    then_iterate(attr_get(Head(groups), Text("controls"), JList(<<>>))))

\* line 137 when the loops found no control
locate_result(control_name, found) ==
    IF found.exc # "" THEN found
    ELSE IF found.val = <<>>
    THEN Raised("RuntimeError",
             Text("Unable to find control definition for '") \o control_name
                 \o Text("'."))
    ELSE Ok(found.val[1])

locate_scan(control_name, groups) ==
    IF groups.exc # "" THEN groups
    ELSE locate_result(control_name, scan_groups(groups.val, control_name))

locate_groups(control_name, input) ==
    IF input.exc # "" THEN input
    ELSE locate_scan(control_name,
                     then_iterate(attr_get(input.val, Text("groups"), JList(<<>>))))

\* locate_control(config, control_name): the control, the RuntimeError, or
\* the AttributeError or TypeError of a document of another shape
locate_control(config_doc, control_name) ==
    locate_groups(control_name, attr_get(config_doc, Text("input"), JDict(<<>>)))

\* lines 321-322: the two URLs
endpoint_urls(years, reports) ==
    IF years.exc # "" THEN years
    ELSE IF reports.exc # "" THEN reports
    ELSE Ok([years_url |-> years.val, reports_url |-> reports.val])

\* lines 317-322
years_endpoint_of(reports_endpoint, years_endpoint) ==
    IF years_endpoint.exc # ""
    THEN Raised("RuntimeError", Text("Year control does not expose an endpoint URL."))
    ELSE endpoint_urls(build_endpoint_url(years_endpoint.val),
                       build_endpoint_url(reports_endpoint.val))

\* line 316: report_year_control["data"]
control_data(reports_endpoint, report_year_control) ==
    IF report_year_control.exc # "" THEN report_year_control
    ELSE years_endpoint_of(reports_endpoint,
             endpoint_prod_of(getitem(report_year_control.val, Text("data"))))

\* lines 311-315
reports_endpoint_of(config_doc, reports_endpoint) ==
    IF reports_endpoint.exc # ""
    THEN Raised("RuntimeError", Text("Unexpected OCC configuration structure."))
    ELSE control_data(reports_endpoint, locate_control(config_doc, Text("report_year")))

\* main() from the decoded configuration to the years request: the two
\* endpoint URLs
resolve_endpoints(config_doc) ==
    reports_endpoint_of(config_doc, endpoint_prod_of(submit_endpoint(config_doc)))

----------------------------------------------------------------------------
\* Query-parameter construction. A dict of the interpreter is the tuple of
\* its <<key, value>> pairs in insertion order.

REPORT_TYPE == Text("report_type")

REPORT_YEAR == Text("report_year")

query_values(year) ==
    <<<<REPORT_TYPE, Text("options")>>, <<REPORT_YEAR, IntToStr(year)>>>>

\* source_key in query_values, query_values[source_key] for a hashable key
values_has(values, source_key) ==
    source_key.t = "str" /\ \E i \in DOMAIN values : values[i][1] = source_key.v

values_get(values, source_key) ==
    values[CHOOSE i \in DOMAIN values : values[i][1] = source_key.v][2]

\* query_params[key] = value: an equal key keeps its place and its first
\* key object
params_put(params, key, value) ==
    IF \E i \in DOMAIN params : key_eq(params[i][1], key)
    THEN [i \in DOMAIN params |->
             IF key_eq(params[i][1], key) THEN <<params[i][1], value>> ELSE params[i]]
    ELSE Append(params, <<key, value>>)

\* key, value_spec = item
unpack_parts(parts) ==
    IF parts.exc # "" THEN parts
    ELSE IF Len(parts.val) # 2 THEN Raised("ValueError", <<>>)
    ELSE Ok(parts.val)

unpack_pair(item) == unpack_parts(iterate(item))

\* isinstance(value_spec, dict) and value_spec.get("dynamic")
is_dynamic(value_spec) ==
    value_spec.t = "dict" /\ truthy(attr_get(value_spec, Text("dynamic"), JNull).val)

UnknownFieldMessage(source_key) ==
    Text("No value defined for dynamic field '") \o py_str(source_key) \o Text("'.")

\* lines 336-339 with query_values.get(source_key, "") for an unknown name
dynamic_value_SkipsUnknown(values, source_key) ==
    IF ~hashable(source_key) THEN Raised("TypeError", <<>>)
    ELSE IF ~values_has(values, source_key) THEN Ok(<<>>)
    ELSE Ok(values_get(values, source_key))

\* lines 336-339: the value of a dynamic field
dynamic_value(values, source_key) ==
    IF ~hashable(source_key) THEN Raised("TypeError", <<>>)
    ELSE IF ~values_has(values, source_key)
    THEN Raised("RuntimeError", UnknownFieldMessage(source_key))
    ELSE Ok(values_get(values, source_key))

\* lines 335-341: the value a specification stands for
spec_value(values, value_spec) ==
    IF is_dynamic(value_spec)
    THEN dynamic_value(values, attr_get(value_spec, Text("value"), JNull).val)
    ELSE Ok(py_str(value_spec))

\* the loop over the query template
RECURSIVE query_loop(_, _, _)
\* lines 339 and 341: query_params[key] = value, once the value is there
query_set(items, values, params, key, value) ==
    IF value.exc # "" THEN value
    ELSE IF ~hashable(key) THEN Raised("TypeError", <<>>)
    ELSE query_loop(Tail(items), values, params_put(params, key, value.val))

query_item(items, values, params, pair) ==
    IF pair.exc # "" THEN pair
    ELSE query_set(items, values, params, pair.val[1], spec_value(values, pair.val[2]))

query_loop(items, values, params) ==
    IF items = <<>> THEN Ok(params)
    ELSE query_item(items, values, params, unpack_pair(Head(items)))

\* lines 333-341 for what iterating query_items gives
query_items_loop(items, year) ==
    IF items.exc # "" THEN items ELSE query_loop(items.val, query_values(year), <<>>)

\* lines 328-331
query_template(query_items, year) ==
    IF query_items.exc # ""
    THEN Raised("RuntimeError", Text("Missing query definition in OCC configuration."))
    ELSE query_items_loop(iterate(query_items.val), year)

\* main() from the target year to query_params: the parameters, a
\* RuntimeError, or the TypeError or ValueError of the loop
build_query_params(config_doc, year) ==
    query_template(then_getitem(submit_endpoint(config_doc), Text("query")), year)

\* f"Warning: CSV timestamp year ({ts_year}) differs from selected year ({target_year})."
WarningMessage(ts_year, year) ==
    Text("Warning: CSV timestamp year (") \o IntToStr(ts_year)
        \o Text(") differs from selected year (") \o IntToStr(year) \o Text(").")

\* lines 346-351 for the result of parse_ts_year
ts_year_check(ts_year, year) ==
    IF ts_year.exc # "" THEN ts_year
    ELSE IF ts_year.val \notin {{}, {0}, {year}}
    THEN Ok(<<WarningMessage(CHOOSE y \in ts_year.val : TRUE, year)>>)
    ELSE Ok(<<>>)

\* main() from the link to the CSV request: the lines written to the error
\* stream, or the ValueError of parse_ts_year
ts_year_warning(download_url, year) == ts_year_check(parse_ts_year(download_url), year)

----------------------------------------------------------------------------
\* Reporter.

\* a < b on str
RECURSIVE StrLT(_, _)
StrLT(a, b) ==
    IF b = <<>> THEN FALSE
    ELSE IF a = <<>> THEN TRUE
    ELSE IF Head(a) = Head(b) THEN StrLT(Tail(a), Tail(b))
    ELSE Head(a) < Head(b)

\* (a.date, a.ticker) < (b.date, b.ticker)
SortKeyLT(a, b) ==
    DateLT(a.date, b.date) \/ (a.date = b.date /\ StrLT(a.ticker, b.ticker))

\* sorted(listings, key=(date, ticker)); the tickers of a map's values differ
RECURSIVE SortedListings(_)
SortedListings(S) ==
    IF S = {} THEN <<>>
    ELSE LET first == CHOOSE x \in S : \A y \in S \ {x} : SortKeyLT(x, y)
         IN  <<first>> \o SortedListings(S \ {first})

\* f"{ticker:<6}"
LeftJustify(s, width) == s \o [i \in 1..(width - Len(s)) |-> 32]

\* the line of one listing
ListingLine(listing) ==
    LeftJustify(listing.ticker, 6) \o <<32>> \o isoformat(listing.date)
        \o Text("  [")
        \o (IF listing.flag # <<>> THEN listing.flag \o Text("-listing") ELSE Text("listing"))
        \o Text("]  ") \o listing.company \o Text(" (Exchange: ") \o listing.exchange
        \o Text(")")

\* the lines print_results prints for the sorted listings
listing_lines(sorted_listings) ==
    IF sorted_listings = <<>>
    THEN <<Text("No qualifying tickers in the current window.")>>
    ELSE [i \in DOMAIN sorted_listings |-> ListingLine(sorted_listings[i])]

\* the lines print_results passes to print(), in order
report_lines(listings, url, today_) ==
    <<Text("OCC new listings sourced from: ") \o url,
      Text("Activation window: ") \o isoformat(MinusDays(today_, window_days))
          \o Text(" through future dates (EST)"),
      <<>>>>
        \o listing_lines(SortedListings({listings[i] : i \in DOMAIN listings}))

\* the UTF-8 codec of standard output encodes the line: no surrogate in it
Encodable(line) == \A i \in DOMAIN line : line[i] \notin 55296..57343

\* the lines up to the first of those at bad
written(lines, bad) ==
    IF bad = {} THEN [lines |-> lines, exc |-> ""]
    ELSE [lines |-> SubSeq(lines, 1, SetMin(bad) - 1), exc |-> "UnicodeEncodeError"]

encode_lines(lines) == written(lines, {i \in DOMAIN lines : ~Encodable(lines[i])})

\* print_results: the lines written before the first one the codec
\* rejects, and the UnicodeEncodeError if there is one
print_results(listings, url, today_) == encode_lines(report_lines(listings, url, today_))
----------------------------------------------------------------------------
\* Values the variables of one specification keep under the others.

NoDate == Date(1, 1, 1)

\* a call that has not been made, is being made, or has ended with r
NoCall == [status |-> "idle", exc |-> "", msg |-> <<>>, val |-> 0]

Pending == [status |-> "pending", exc |-> "", msg |-> <<>>, val |-> 0]

Outcome(r) ==
    [status |-> IF r.exc = "" THEN "returned" ELSE "raised",
     exc |-> r.exc, msg |-> r.msg, val |-> r.val]

RunIdle ==
    /\ pc = "idle" /\ now = NoDate /\ requests = <<>> /\ config_url = <<>>
    /\ config = JNull /\ years_url = <<>> /\ reports_url = <<>>
    /\ target_year = 0 /\ query_params = <<>>
    /\ today_est = NoDate /\ csv_url = <<>>
    /\ stdout = <<>> /\ stderr = <<>> /\ exit_code = {}

CsvIdle ==
    /\ csv_pc = "idle" /\ today = NoDate /\ unread = <<>> /\ fieldnames = <<>>
    /\ rows = <<>> /\ dedup = <<>>

YearIdle == year_strings = JNull /\ current_year = 0 /\ year_out = NoCall

LinkIdle == entries = JNull /\ month_slug = <<>> /\ link_out = NoCall

----------------------------------------------------------------------------
\* SpecCsv: parse_csv on a document, one record of the reader per step.

CsvHeader == Text("Stock Symbol,Date,Company,Exchange,N/E")

\* Lines of a document: one ticker in three spellings with a later date, the
\* window start of 1 June 2024 twice with other fields, and a full-width
\* digit; a far future date; the day before the window; no ticker (a form
\* feed); no such day; a carriage return inside a field, which the reader
\* rejects.
CsvLines ==
    {Text(" a,06/03/2024,Co ,NYSE,n"),
     Text("A,5/30/2024 ,Inc,ARCA,E"),
     <<12>> \o Text("a,05/30/202") \o <<65300>> \o Text(",Other,CBOE,"),
     Text("b,01/01/2099,Beta,CBOE,"),
     Text("b,05/29/2024,Beta,CBOE,N"),
     <<12>> \o Text(",06/03/2024,Nameless,X,"),
     Text("c,02/30/2024,Bad,X,"),
     Text("d") \o <<13>> \o Text("e,06/03/2024")}

\* text + "\n" for every line
RECURSIVE JoinLines(_)
JoinLines(lines) ==
    IF lines = <<>> THEN <<>> ELSE Head(lines) \o <<10>> \o JoinLines(Tail(lines))

\* the empty document and the documents of a header and up to MaxRows lines
CsvDocuments ==
    {<<>>} \cup {JoinLines(<<CsvHeader>> \o lines) : lines \in SeqsUpTo(CsvLines, MaxRows)}

Todays == {Date(2024, 6, 1), Date(2024, 3, 1)}

InitCsv ==
    /\ csv_pc = "header"
    /\ today \in Todays
    /\ unread \in CsvDocuments
    /\ fieldnames = <<>>
    /\ rows = <<>>
    /\ dedup = <<>>
    /\ RunIdle /\ YearIdle /\ LinkIdle

\* DictReader takes the first record as the field names
ReadHeader ==
    /\ csv_pc = "header"
    /\ \E header \in {reader_next(unread)} :
           IF header.status = "row"
           THEN csv_pc' = "loop" /\ fieldnames' = header.row /\ unread' = header.rest
           ELSE /\ csv_pc' = IF header.status = "Error" THEN "raised" ELSE "returned"
                /\ UNCHANGED <<fieldnames, unread>>
    /\ UNCHANGED <<today, rows, dedup, run_vars, year_vars, link_vars>>

\* one iteration of the row loop
ReadRow ==
    /\ csv_pc = "loop"
    /\ \E record \in {next_record(unread)} :
           /\ record.status = "row"
           /\ rows' = Append(rows, record.row)
           /\ dedup' = RowStep(dedup, fieldnames, record.row, today)
           /\ unread' = record.rest
    /\ UNCHANGED <<csv_pc, today, fieldnames, run_vars, year_vars, link_vars>>

\* the reader is exhausted
ReturnDedup ==
    /\ csv_pc = "loop"
    /\ next_record(unread).status = "StopIteration"
    /\ csv_pc' = "returned"
    /\ UNCHANGED <<today, unread, fieldnames, rows, dedup, run_vars, year_vars, link_vars>>

\* the reader raises csv.Error, which parse_csv does not catch
RaiseCsvError ==
    /\ csv_pc = "loop"
    /\ next_record(unread).status = "Error"
    /\ csv_pc' = "raised"
    /\ UNCHANGED <<today, unread, fieldnames, rows, dedup, run_vars, year_vars, link_vars>>

NextCsv == ReadHeader \/ ReadRow \/ ReturnDedup \/ RaiseCsvError

SpecCsv == InitCsv /\ [][NextCsv]_vars

----------------------------------------------------------------------------
\* SpecYear: determine_target_year on a decoded years document.

\* items of a years document: year strings, one padded, one signed in
\* full-width digits (2022), one int() rejects, and a number
YearItems ==
    {JStr(Text("2023")), JStr(Text("2024")), JStr(Text(" 2026")),
     JStr(<<43, 65298, 65296, 65298, 65298>>), JStr(Text("20x4")), JInt(2025)}

\* the arrays of up to MaxYears items, and documents that are not arrays
YearDocuments ==
    {JList(items) : items \in SeqsUpTo(YearItems, MaxYears)}
        \cup {JNull, JInt(2024), JStr(Text("2024")),
              JDict(<<<<Text("2024"), JBool(TRUE)>>, <<Text("2023"), JNull>>>>),
              JList(<<JNull>>), JList(<<JNaN>>), JList(<<JInfinity>>),
              JList(<<JFloat(Text("2024.7"), 2024, FALSE), JBool(TRUE)>>)}

CurrentYears == {2022, 2024, 2025}

InitYear ==
    /\ year_strings \in YearDocuments
    /\ current_year \in CurrentYears
    /\ year_out = Pending
    /\ RunIdle /\ CsvIdle /\ LinkIdle

SelectYear ==
    /\ year_out.status = "pending"
    /\ year_out' = Outcome(select_target_year(year_strings, current_year))
    /\ UNCHANGED <<year_strings, current_year, run_vars, csv_vars, link_vars>>

NextYear == SelectYear

SpecYear == InitYear /\ [][NextYear]_vars

----------------------------------------------------------------------------
\* SpecLink: fetch_month_link on a decoded report list.

Entry(url) ==
    JDict(<<<<Text("name"), JStr(Text("report"))>>, <<PERMAMENT_URL, url>>>>)

\* items of a report list: links for June in either letter case, with and
\* without a ts value, relative, with dot segments and on another host; a
\* link for May; a near miss; an empty, a null and a missing field; a link
\* urljoin rejects; a field that is a number; an item that is no object
ReportEntries ==
    {Entry(JStr(Text("/r/June.CSV?ts=202406010930"))),
     Entry(JStr(Text("/r/june.csv"))),
     Entry(JStr(Text("x/../june.csv?a=1&ts=2023#top"))),
     Entry(JStr(Text("HTTPS://cdn.theocc.com/june.csv?ts=0000"))),
     Entry(JStr(Text("/r/may.csv?ts=20"))),
     Entry(JStr(Text("/r/june.cs"))),
     Entry(JStr(<<>>)),
     Entry(JNull),
     JDict(<<<<Text("name"), JStr(Text("report"))>>>>),
     Entry(JStr(Text("//[/june.csv"))),
     Entry(JInt(5)),
     JStr(Text("/r/june.csv"))}

\* the arrays of up to MaxEntries items, and documents that are not arrays
ReportDocuments ==
    {JList(items) : items \in SeqsUpTo(ReportEntries, MaxEntries)}
        \cup {JNull, JDict(<<<<PERMAMENT_URL, JStr(Text("/r/june.csv"))>>>>), JDict(<<>>)}

MonthSlugs == {MonthSlug(Date(2024, 6, 1)), MonthSlug(Date(2025, 5, 31))}

InitLink ==
    /\ entries \in ReportDocuments
    /\ month_slug \in MonthSlugs
    /\ link_out = Pending
    /\ RunIdle /\ CsvIdle /\ YearIdle

FindLink ==
    /\ link_out.status = "pending"
    /\ link_out' = Outcome(find_month_link(entries, month_slug))
    /\ UNCHANGED <<entries, month_slug, run_vars, csv_vars, year_vars>>

NextLink == FindLink

SpecLink == InitLink /\ [][NextLink]_vars

----------------------------------------------------------------------------
\* Spec: one run of the script, from create_http_client to the exit code.
\* pc names the call main() makes next; each action is that call with the
\* request it issues and everything main() does up to the next request.

\* the clock at the first of the two reads of datetime.now(EST)
RunNows == {Date(2024, 6, 1), Date(2025, 5, 31)}

\* the clock at the second read: not earlier, here at most a day later
ClockAfter(d) == {d, NextDay(d)}

\* str(exc) of the RequestException of a failed request
RequestErrors == {Text("503 Server Error")}

\* page_resp.text: no marker; the marker without data-api; data-api before
\* the id; the marker in capitals after other tags; an endpoint urljoin
\* rejects
EntryPages ==
    {Text("<div id=\"nav\" data-api=\"/menu\"></div>"),
     Text("<div id=\"market-data\"></div><a data-api=\"/menu\">"),
     Text("<div data-api=\"/mdapi/cfg\" id=\"market-data\">"),
     Text("<p id=\"nav\"></p><div class=\"x\" ID=\"Market-Data\" data-api=\"/mdapi/new-listings\"></div>"),
     Text("<div id=\"market-data\" data-api=\"//[mdapi\">")}

Pair(key, value_spec) == JList(<<key, value_spec>>)

DynamicSpec(dynamic, value) ==
    JDict(<<<<Text("dynamic"), dynamic>>, <<Text("value"), value>>>>)

\* items of a query template: the two known dynamic names, one marked
\* dynamic by a number; a spec that is not dynamic; an unknown name; a
\* number; a null key; an item that is no pair; a key that is a list
QueryPairs ==
    {Pair(JStr(REPORT_TYPE), DynamicSpec(JBool(TRUE), JStr(REPORT_TYPE))),
     Pair(JStr(REPORT_YEAR), DynamicSpec(JInt(1), JStr(REPORT_YEAR))),
     Pair(JStr(REPORT_YEAR), DynamicSpec(JBool(FALSE), JStr(REPORT_YEAR))),
     Pair(JStr(Text("month")), DynamicSpec(JBool(TRUE), JStr(Text("report_month")))),
     Pair(JStr(Text("fmt")), JInt(10)),
     Pair(JNull, JStr(Text("csv"))),
     JList(<<JStr(Text("fmt"))>>),
     Pair(JList(<<JStr(Text("fmt"))>>), JStr(Text("csv")))}

QueryTemplates == {JList(items) : items \in SeqsUpTo(QueryPairs, MaxQuery)}

Control(name, data) == JDict(<<<<Text("name"), JStr(name)>>, <<Text("data"), data>>>>)

EndpointData(prod) ==
    JDict(<<<<Text("endpoint"), JDict(<<<<Text("prod"), prod>>>>)>>>>)

StaticData == JDict(<<<<Text("options"), JStr(Text("static"))>>>>)

YearControl == Control(REPORT_YEAR, EndpointData(JStr(Text("/mdapi/years"))))

Group(controls) == JDict(<<<<Text("controls"), JList(controls)>>>>)

Input(groups) == JDict(<<<<Text("groups"), JList(groups)>>>>)

GoodGroups ==
    <<JDict(<<<<Text("label"), JStr(Text("filters"))>>>>),
      Group(<<Control(REPORT_TYPE, StaticData), YearControl>>)>>

\* the first control named report_year exposes no endpoint; a later one does
ShadowedGroups == <<Group(<<Control(REPORT_YEAR, StaticData)>>), Group(<<YearControl>>)>>

\* a group that is a number, after the group of the year control and before it
LateBadGroups == <<Group(<<YearControl>>), JInt(5)>>

EarlyBadGroups == <<JInt(5), Group(<<YearControl>>)>>

Submit(endpoint_fields) ==
    JDict(<<<<Text("endpoints"), JList(<<JDict(endpoint_fields)>>)>>>>)

ReportsPath == <<Text("endpoint"), JDict(<<<<Text("prod"), JStr(Text("/mdapi/series-search"))>>>>)>>

NoQuery == <<Text("query"), JList(<<>>)>>

Config(input, submit) == JDict(<<<<Text("input"), input>>, <<Text("submit"), submit>>>>)

\* config_resp.json(): the well-formed configuration with every template,
\* and documents of other shapes
Configs ==
    {Config(Input(GoodGroups), Submit(<<ReportsPath, <<Text("query"), q>>>>)) :
        q \in QueryTemplates}
    \cup
    {Config(Input(GoodGroups), Submit(<<ReportsPath>>)),
     Config(Input(GoodGroups), Submit(<<ReportsPath, <<Text("query"), JInt(5)>>>>)),
     Config(Input(GoodGroups), JDict(<<<<Text("endpoints"), JList(<<>>)>>>>)),
     Config(Input(GoodGroups), JDict(<<<<Text("endpoints"), JStr(Text("ab"))>>>>)),
     JDict(<<<<Text("input"), Input(GoodGroups)>>>>),
     JDict(<<<<Text("submit"), Submit(<<ReportsPath, NoQuery>>)>>>>),
     JList(<<>>),
     Config(Input(ShadowedGroups), Submit(<<ReportsPath, NoQuery>>)),
     Config(Input(LateBadGroups), Submit(<<ReportsPath, NoQuery>>)),
     Config(Input(EarlyBadGroups), Submit(<<ReportsPath, NoQuery>>)),
     Config(JInt(5), Submit(<<ReportsPath, NoQuery>>)),
     Config(Input(<<Group(<<JStr(REPORT_YEAR)>>)>>), Submit(<<ReportsPath, NoQuery>>)),
     Config(Input(<<Group(<<Control(REPORT_YEAR, EndpointData(JNull))>>)>>),
            Submit(<<ReportsPath, NoQuery>>)),
     Config(Input(<<Group(<<Control(REPORT_YEAR, EndpointData(JInt(5)))>>)>>),
            Submit(<<ReportsPath, NoQuery>>)),
     Config(Input(GoodGroups),
            Submit(<<<<Text("endpoint"), JDict(<<<<Text("prod"), JStr(Text("//[reports"))>>>>)>>,
                     NoQuery>>))}

\* years_resp.json()
RunYearDocs ==
    {JList(<<>>),
     JList(<<JStr(Text("2023")), JStr(Text("2024"))>>),
     JList(<<JInt(2023), JStr(Text("2023"))>>),
     JList(<<JStr(Text(" 2026"))>>),
     JList(<<JStr(Text("2024")), JStr(Text("20x4"))>>),
     JList(<<JStr(Text("2024")), JNull>>),
     JInt(2024)}

\* reports_resp.json()
RunReportLists ==
    {JList(<<>>),
     JList(<<JDict(<<<<Text("name"), JStr(Text("report"))>>>>),
             Entry(JStr(Text("/r/may.csv?ts=20"))),
             Entry(JStr(Text("/r/June.CSV?ts=202406010930")))>>),
     JList(<<Entry(JStr(<<>>)), Entry(JStr(Text("/r/june.csv")))>>),
     JList(<<Entry(JStr(Text("x/../june.csv?a=1&ts=2023#top"))),
             Entry(JStr(Text("/r/june.csv")))>>),
     JList(<<Entry(JStr(Text("HTTPS://cdn.theocc.com/june.csv?ts=0000")))>>),
     JList(<<Entry(JStr(Text("/r/june.cs")))>>),
     JList(<<Entry(JStr(Text("/r/june.csv?t%73=") \o <<178>> \o Text("024")))>>),
     JList(<<Entry(JStr(Text("/r/") \o <<55296>> \o Text("june.csv")))>>),
     JList(<<Entry(JInt(5)), Entry(JStr(Text("/r/june.csv")))>>),
     JNull}

\* resp.text of the CSV download; a decoded body holds no surrogate
RunCsvTexts ==
    {<<>>,
     JoinLines(<<CsvHeader, Text("b,05/29/2024,Beta,CBOE,")>>),
     JoinLines(<<CsvHeader, Text("b,01/01/2099,Beta,CBOE,"),
                 Text(" a,06/03/2024,Co ,NYSE,n"), Text("A,5/30/2024 ,Inc,ARCA,E")>>),
     JoinLines(<<CsvHeader, Text("b,01/01/2099,Beta,CBOE,"),
                 Text("d") \o <<13>> \o Text("e,06/03/2024")>>)}

\* one session.get: the call that issues it, its URL and its params
Get(name, url, params) == [name |-> name, url |-> url, params |-> params]

\* what reaches the error stream: the text print() is given, or the
\* traceback of the exception class the interpreter reports
ErrorLine(msg) == [kind |-> "error", exc |-> "RuntimeError", text |-> Text("Error: ") \o msg]

WarningLine(text) == [kind |-> "warning", exc |-> "", text |-> text]

Traceback(exc) == [kind |-> "traceback", exc |-> exc, text |-> <<>>]

Report(r) == IF r.exc = "RuntimeError" THEN ErrorLine(r.msg) ELSE Traceback(r.exc)

\* a handler that reports the error and lets the failed call run again
Raise_Retry(r) ==
    /\ stderr' = Append(stderr, Report(r))
    /\ exit_code' = exit_code
    /\ pc' = pc

\* an exception reaches the top level: a RuntimeError is printed behind
\* "Error: " and the exit code is 1; any other exception is not caught, the
\* interpreter prints its traceback and exits with 1
Raise(r) ==
    /\ stderr' = Append(stderr, Report(r))
    /\ exit_code' = {1}
    /\ pc' = "done"

\* the RuntimeError a function makes of the RequestException of its request
RequestFailed(prefix) ==
    {Raised("RuntimeError", prefix \o Text(": ") \o e) : e \in RequestErrors}

Init ==
    /\ pc = "start"
    /\ now \in RunNows
    /\ requests = <<>> /\ config_url = <<>> /\ config = JNull
    /\ years_url = <<>> /\ reports_url = <<>>
    /\ target_year = 0 /\ query_params = <<>>
    /\ today_est = NoDate /\ csv_url = <<>>
    /\ stdout = <<>> /\ stderr = <<>> /\ exit_code = {}
    /\ CsvIdle /\ YearIdle /\ LinkIdle

CreateHttpClient ==
    /\ pc = "start"
    /\ \E installed \in BOOLEAN :
          IF installed
          THEN pc' = "entry" /\ UNCHANGED <<stderr, exit_code>>
          ELSE /\ stderr' = Append(stderr,
                    [kind |-> "usage", exc |-> "",
                     text |-> Text("The 'cloudscraper' package is required to reach the OCC site reliably.")
                                  \o <<10>> \o Text("Install it with: pip install cloudscraper")])
               /\ exit_code' = {1}
               /\ pc' = "done"
    /\ UNCHANGED <<now, requests, config_url, config, years_url, reports_url,
                   target_year, query_params, today_est, csv_url, stdout,
                   csv_vars, year_vars, link_vars>>

\* load_config: the entry page and the endpoint found in it
FetchEntryPage ==
    /\ pc = "entry"
    /\ requests' = Append(requests, Get("entry page", ENTRY_PAGE, <<>>))
    /\ \/ /\ \E r \in RequestFailed(Text("Failed to load OCC entry page")) : Raise(r)
          /\ UNCHANGED config_url
       \/ \E html \in EntryPages :
          \E found \in {discover_config_endpoint(html)} :
             IF found.exc # ""
             THEN Raise(found) /\ UNCHANGED config_url
             ELSE /\ config_url' = found.val
                  /\ pc' = "config"
                  /\ UNCHANGED <<stderr, exit_code>>
    /\ UNCHANGED <<now, config, years_url, reports_url, target_year, query_params,
                   today_est, csv_url, stdout, csv_vars, year_vars, link_vars>>

\* load_config: the configuration JSON; then main() resolves the report
\* endpoint and the year control's endpoint into the two URLs
FetchConfig ==
    /\ pc = "config"
    /\ requests' = Append(requests, Get("configuration", config_url, <<>>))
    /\ \/ /\ \E r \in RequestFailed(Text("Failed to load OCC configuration JSON")) : Raise(r)
          /\ UNCHANGED <<config, years_url, reports_url>>
       \/ /\ Raise(Raised("RuntimeError",
                          Text("Configuration endpoint did not return valid JSON.")))
          /\ UNCHANGED <<config, years_url, reports_url>>
       \/ \E doc \in Configs :
          \E urls \in {resolve_endpoints(doc)} :
             /\ config' = doc
             /\ IF urls.exc # ""
                THEN Raise(urls) /\ UNCHANGED <<years_url, reports_url>>
                ELSE /\ years_url' = urls.val.years_url
                     /\ reports_url' = urls.val.reports_url
                     /\ pc' = "years"
                     /\ UNCHANGED <<stderr, exit_code>>
    /\ UNCHANGED <<now, config_url, target_year, query_params, today_est, csv_url,
                   stdout, csv_vars, year_vars, link_vars>>

\* determine_target_year; then main() builds the query parameters and
\* reads the clock again
FetchYears ==
    /\ pc = "years"
    /\ requests' = Append(requests, Get("years", years_url, <<>>))
    /\ \/ /\ \E r \in RequestFailed(Text("Unable to load available years")) : Raise(r)
          /\ UNCHANGED <<target_year, query_params, today_est>>
       \/ /\ Raise(Raised("RuntimeError", Text("Years endpoint did not return valid JSON.")))
          /\ UNCHANGED <<target_year, query_params, today_est>>
       \/ \E doc \in RunYearDocs :
          \E selected \in {select_target_year(doc, now.year)} :
             IF selected.exc # ""
             THEN Raise(selected) /\ UNCHANGED <<target_year, query_params, today_est>>
             ELSE /\ target_year' = selected.val
                  /\ \E built \in {build_query_params(config, selected.val)} :
                        IF built.exc # ""
                        THEN Raise(built) /\ UNCHANGED <<query_params, today_est>>
                        ELSE /\ query_params' = built.val
                             /\ today_est' \in ClockAfter(now)
                             /\ pc' = "reports"
                             /\ UNCHANGED <<stderr, exit_code>>
    /\ UNCHANGED <<now, config_url, config, years_url, reports_url, csv_url, stdout,
                   csv_vars, year_vars, link_vars>>

\* fetch_month_link; then main() compares the link's ts year
FetchReportList ==
    /\ pc = "reports"
    /\ requests' = Append(requests, Get("report list", reports_url, query_params))
    /\ \/ /\ \E r \in RequestFailed(Text("Failed to fetch monthly report list")) : Raise(r)
          /\ UNCHANGED csv_url
       \/ /\ Raise(Raised("RuntimeError", Text("Report list is not valid JSON.")))
          /\ UNCHANGED csv_url
       \/ \E doc \in RunReportLists :
          \E found \in {find_month_link(doc, MonthSlug(today_est))} :
             IF found.exc # ""
             THEN Raise(found) /\ UNCHANGED csv_url
             ELSE /\ csv_url' = found.val
                  /\ \E warning \in {ts_year_warning(found.val, target_year)} :
                        IF warning.exc # ""
                        THEN Raise(warning)
                        ELSE /\ stderr' = stderr \o [i \in DOMAIN warning.val |->
                                                        WarningLine(warning.val[i])]
                             /\ pc' = "csv"
                             /\ UNCHANGED exit_code
    /\ UNCHANGED <<now, config_url, config, years_url, reports_url, target_year,
                   query_params, today_est, stdout, csv_vars, year_vars, link_vars>>

\* the report header printed before the download is attempted
FetchCsvAndPrint_HeaderFirst ==
    /\ pc = "csv"
    /\ requests' = Append(requests, Get("csv", csv_url, <<>>))
    /\ \/ /\ \E r \in RequestFailed(Text("Failed to download CSV data")) : Raise(r)
          /\ stdout' = <<Text("OCC new listings sourced from: ") \o csv_url>>
       \/ \E csv_text \in RunCsvTexts :
          \E parsed \in {parse_csv(csv_text, today_est)} :
             IF parsed.exc # ""
             THEN Raise(parsed) /\ UNCHANGED stdout
             ELSE \E printed \in {print_results(parsed.val, csv_url, today_est)} :
                     /\ stdout' = printed.lines
                     /\ IF printed.exc # ""
                        THEN Raise(Raised(printed.exc, <<>>))
                        ELSE exit_code' = {0} /\ pc' = "done" /\ UNCHANGED stderr
    /\ UNCHANGED <<now, config_url, config, years_url, reports_url, target_year,
                   query_params, today_est, csv_url, csv_vars, year_vars, link_vars>>

\* fetch_csv, parse_csv, print_results, return 0
FetchCsvAndPrint ==
    /\ pc = "csv"
    /\ requests' = Append(requests, Get("csv", csv_url, <<>>))
    /\ \/ /\ \E r \in RequestFailed(Text("Failed to download CSV data")) : Raise(r)
          /\ UNCHANGED stdout
       \/ \E csv_text \in RunCsvTexts :
          \E parsed \in {parse_csv(csv_text, today_est)} :
             IF parsed.exc # ""
             THEN Raise(parsed) /\ UNCHANGED stdout
             ELSE \E printed \in {print_results(parsed.val, csv_url, today_est)} :
                     /\ stdout' = printed.lines
                     /\ IF printed.exc # ""
                        THEN Raise(Raised(printed.exc, <<>>))
                        ELSE exit_code' = {0} /\ pc' = "done" /\ UNCHANGED stderr
    /\ UNCHANGED <<now, config_url, config, years_url, reports_url, target_year,
                   query_params, today_est, csv_url, csv_vars, year_vars, link_vars>>

Next ==
    \/ CreateHttpClient
    \/ FetchEntryPage
    \/ FetchConfig
    \/ FetchYears
    \/ FetchReportList
    \/ FetchCsvAndPrint

Spec == Init /\ [][Next]_vars

----------------------------------------------------------------------------
\* Properties of the row loop (SpecCsv).

\* What one row is for the claims: its normalised ticker, its date when the
\* text parses, whether it qualifies (non-empty ticker, parseable date,
\* date >= today - 2 days), and the Listing it would be stored as.
RowFacts(names, row, today_) ==
    LET t == upper(strip(RowGet(names, row, STOCK_SYMBOL)))
        ds == strptime(strip(RowGet(names, row, DATE)))
        d == IF ds = {} THEN Date(0, 0, 0) ELSE CHOOSE x \in ds : TRUE
    IN  [ticker |-> t,
         parses |-> ds # {},
         date |-> d,
         qualifies |-> t # <<>> /\ ds # {} /\ ~DateLT(d, MinusDays(today_, 2)),
         listing |-> Listing(t, d, strip(RowGet(names, row, COMPANY)),
                             strip(RowGet(names, row, EXCHANGE)),
                             upper(strip(RowGet(names, row, N_E))))]

\* the facts of the rows read so far, by index
RowsFacts == [i \in DOMAIN rows |-> RowFacts(fieldnames, rows[i], today)]

\* C1: after any rows, the map holds exactly one Listing for each ticker
\* that has a qualifying row and none for any other, and the Listing of a
\* ticker is that of the first row in file order that attains the minimum
\* date among the ticker's qualifying rows.
C1_FirstMinimalRowKept ==
    \A f \in {RowsFacts} :
        LET Q == {i \in DOMAIN f : f[i].qualifies}
            FirstMinimal(t) ==
                CHOOSE i \in Q :
                    /\ f[i].ticker = t
                    /\ \A j \in Q : f[j].ticker = t =>
                          \/ DateLT(f[i].date, f[j].date)
                          \/ f[i].date = f[j].date /\ i <= j
        IN  /\ {dedup[k].ticker : k \in DOMAIN dedup} = {f[i].ticker : i \in Q}
            /\ \A k, l \in DOMAIN dedup : dedup[k].ticker = dedup[l].ticker => k = l
            /\ \A k \in DOMAIN dedup : dedup[k] = f[FirstMinimal(dedup[k].ticker)].listing

\* a later strictly earlier row replaced the stored one, and a still later
\* row with the same date and other fields did not
C1_Witness ==
    \E f \in {RowsFacts} :
        \E i, j, k \in DOMAIN rows :
            /\ i < j /\ j < k
            /\ f[i].qualifies /\ f[j].qualifies /\ f[k].qualifies
            /\ f[i].ticker = f[j].ticker /\ f[j].ticker = f[k].ticker
            /\ DateLT(f[j].date, f[i].date)
            /\ f[k].date = f[j].date
            /\ f[k].listing # f[j].listing
            /\ \E n \in DOMAIN dedup : dedup[n] = f[j].listing

\* C2: after any prefix of rows every stored Listing has
\* date >= today - 2 days, and every row with a ticker and a parseable date
\* after today, however far, has its ticker in the map.
C2_WindowLowerBoundOnly ==
    \E f \in {RowsFacts} :
        /\ \A k \in DOMAIN dedup : ~DateLT(dedup[k].date, MinusDays(today, 2))
        /\ \A i \in DOMAIN rows :
              (f[i].ticker # <<>> /\ f[i].parses /\ DateLT(today, f[i].date))
              => \E k \in DOMAIN dedup : dedup[k].ticker = f[i].ticker

\* one Listing sits exactly on the window start, another is dated 2099, and
\* a row dated the day before the window start was read
C2_Witness ==
    \E f \in {RowsFacts} :
        /\ \E k \in DOMAIN dedup : dedup[k].date = MinusDays(today, 2)
        /\ \E k \in DOMAIN dedup : dedup[k].date.year = 2099
        /\ \E i \in DOMAIN rows :
              f[i].ticker # <<>> /\ f[i].parses /\ f[i].date = MinusDays(today, 3)

\* C9: the map after any rows equals the map the row loop builds from the
\* same rows with every excluded row (empty ticker, unparseable date, date
\* before today - 2 days) removed.
C9_ExcludedRowsLeaveNoTrace ==
    LET Keep(row) == RowFacts(fieldnames, row, today).qualifies
    IN  dedup = parse_records(<<>>, fieldnames, SelectSeq(rows, Keep), today)

\* a row was excluded before a qualifying row was stored, and the rows read
\* include a row without ticker and a row with a bad or too early date
C9_Witness ==
    \E f \in {RowsFacts} :
        /\ \E i, j \in DOMAIN rows : i < j /\ ~f[i].qualifies /\ f[j].qualifies
        /\ \E i, j \in DOMAIN rows :
              /\ f[i].ticker = <<>>
              /\ f[j].ticker # <<>>
              /\ ~f[j].qualifies
        /\ dedup # <<>>

----------------------------------------------------------------------------
\* Properties of the year selection (SpecYear).

\* the document is iterable and int() accepts every item
YearsConvert(doc) ==
    /\ iterate(doc).exc = ""
    /\ \A i \in DOMAIN iterate(doc).val : py_int(iterate(doc).val[i]).exc = ""

\* the set of available years of such a document
Available(doc) == {py_int(iterate(doc).val[i]).val : i \in DOMAIN iterate(doc).val}

\* C3: for a years document that yields a non-empty set of years the
\* selection returns a member of the set: the current year when available,
\* else the greatest available year below it when there is one, else the
\* greatest available year.
C3_TargetYearPolicy ==
    (/\ year_out.status # "pending"
     /\ YearsConvert(year_strings)
     /\ Available(year_strings) # {})
    => LET avail == Available(year_strings)
           below == {y \in avail : y < current_year}
           y == year_out.val
       IN  /\ year_out.status = "returned"
           /\ y \in avail
           /\ current_year \in avail => y = current_year
           /\ (current_year \notin avail /\ below # {})
                 => y \in below /\ \A z \in below : z <= y
           /\ (current_year \notin avail /\ below = {})
                 => \A z \in avail : z <= y

\* the current year is missing, a later year and two earlier years are
\* available, and the later of the earlier ones was selected
C3_Witness ==
    /\ year_out.status = "returned"
    /\ YearsConvert(year_strings)
    /\ LET avail == Available(year_strings) IN
       /\ current_year \notin avail
       /\ \E z \in avail : z > current_year
       /\ \E z \in avail : z < year_out.val
       /\ year_out.val < current_year

----------------------------------------------------------------------------
\* Properties of the entry search (SpecLink).

\* the document is an array of objects whose permamentUrl is a string, null
\* or missing
EntriesWellFormed(doc) ==
    /\ doc.t = "list"
    /\ \A i \in DOMAIN doc.v :
          /\ doc.v[i].t = "dict"
          /\ dict_has(doc.v[i], PERMAMENT_URL)
                => dict_value(doc.v[i], PERMAMENT_URL).t \in {"str", "null"}

\* the field of such an entry, empty when it is null or missing
FieldOf(entry) ==
    IF dict_has(entry, PERMAMENT_URL) /\ dict_value(entry, PERMAMENT_URL).t = "str"
    THEN dict_value(entry, PERMAMENT_URL).v
    ELSE <<>>

\* c is the letter k of a month key, small or capital
SameLetter(c, k) == c = k \/ (k \in 97..122 /\ c = k - 32)

\* key occurs in s when letter case is ignored
ContainsIgnoringCase(s, key) ==
    \E i \in 1..(Len(s) - Len(key) + 1) :
        \A k \in DOMAIN key : SameLetter(s[i + k - 1], key[k])

\* C7: on a well-formed report list the search fails with the not-found
\* error exactly when no entry's permamentUrl contains "<month_slug>.csv"
\* in any letter case, and otherwise returns the URL of the first such
\* entry in list order, joined to the base URL, when urljoin accepts it.
C7_FirstMatchingEntry ==
    (link_out.status # "pending" /\ EntriesWellFormed(entries)) =>
        LET key == month_slug \o <<46, 99, 115, 118>>
            matching == {i \in DOMAIN entries.v :
                            ContainsIgnoringCase(FieldOf(entries.v[i]), key)}
        IN  IF matching = {}
            THEN /\ link_out.status = "raised"
                 /\ link_out.exc = "RuntimeError"
                 /\ link_out.msg = NotFoundMessage(key)
            ELSE /\ link_out.exc # "RuntimeError"
                 /\ \E first \in matching :
                       /\ \A i \in matching : first <= i
                       /\ LET joined == urljoin(BASE_URL, FieldOf(entries.v[first]))
                          IN  joined.exc = "" =>
                                 /\ link_out.status = "returned"
                                 /\ link_out.val = joined.val

\* two entries with different URLs match, the first of them in capitals,
\* and the first one's URL was returned
C7_Witness ==
    /\ link_out.status = "returned"
    /\ EntriesWellFormed(entries)
    /\ Len(entries.v) = 2
    /\ \A i \in {1, 2} :
          ContainsIgnoringCase(FieldOf(entries.v[i]), month_slug \o <<46, 99, 115, 118>>)
    /\ FieldOf(entries.v[1]) # FieldOf(entries.v[2])
    /\ FieldOf(entries.v[1]) # lower(FieldOf(entries.v[1]))
    /\ link_out.val = urljoin(BASE_URL, FieldOf(entries.v[1])).val

----------------------------------------------------------------------------
\* Properties of a run (Spec).

RequestOrder == <<"entry page", "configuration", "years", "report list", "csv">>

Failed == \E i \in DOMAIN stderr : stderr[i].kind # "warning"

Warned == \E i \in DOMAIN stderr : stderr[i].kind = "warning"

\* C4: a finished run that issued a request exits with 0 on success and
\* with 1 on an error, and on an error the last message on the error stream
\* is prefixed "Error: ".
C4_ErrorsArePrefixed ==
    (pc = "done" /\ requests # <<>>) =>
        \/ exit_code = {0} /\ ~Failed
        \/ /\ exit_code = {1}
           /\ stderr # <<>>
           /\ StartsWith(stderr[Len(stderr)].text, Text("Error: "))

\* C5: the requests issued so far are the first ones of the fixed order,
\* each once; and once an error is reported the run is over: its exit code
\* is 1 and no step, so no request, is possible.
C5_RequestsInOrderNoRetry ==
    /\ Len(requests) <= Len(RequestOrder)
    /\ \A i \in DOMAIN requests : requests[i].name = RequestOrder[i]
    /\ Failed => pc = "done" /\ exit_code = {1} /\ ~ENABLED Next
    /\ pc = "done" => exit_code # {} /\ ~ENABLED Next

\* the report list request failed in transport and the run ended after
\* four requests
C5_Witness ==
    /\ pc = "done"
    /\ Len(requests) = 4
    /\ exit_code = {1}
    /\ StartsWith(stderr[Len(stderr)].text, Text("Error: Failed to fetch monthly report list: "))

\* C6: standard output is empty unless all five requests and every
\* resolution step succeeded; a run whose report list has no entry for the
\* month ends with the not-found error and empty standard output.
C6_NoPartialOutput ==
    /\ stdout # <<>> =>
          /\ Len(requests) = 5
          /\ ~Failed
          /\ exit_code = {0}
          /\ csv_url # <<>>
    /\ Failed => stdout = <<>>

\* the month-link lookup failed with the not-found error and nothing was
\* printed
C6_Witness ==
    /\ pc = "done"
    /\ stderr # <<>>
    /\ stderr[Len(stderr)].text
          = Text("Error: ") \o NotFoundMessage(MonthSlug(today_est) \o Text(".csv"))
    /\ Len(requests) = 4
    /\ stdout = <<>>

\* the year the first four characters of the link's first ts value spell
\* when they are digits, as parse_ts_year returns it
LinkYear == parse_ts_year(csv_url)

\* C8: once the link is resolved, a ts year that differs from the target
\* year has produced a warning; the warning is the only effect: a run that
\* then downloads the CSV ends with exit code 0 and printed output.
C8_MismatchWarnsAndProceeds ==
    (pc \in {"csv", "done"} /\ csv_url # <<>> /\ LinkYear.exc = "") =>
        /\ (LinkYear.val # {} /\ LinkYear.val # {target_year}) => Warned
        /\ Warned => (LinkYear.val # {} /\ LinkYear.val # {target_year})
        /\ (pc = "done" /\ ~Failed) =>
              exit_code = {0} /\ stdout # <<>> /\ Len(requests) = 5

\* the runtime value a dynamic spec names
NameOf(value_spec) == attr_get(value_spec, Text("value"), JNull).val

\* a query template: an array of two-item arrays whose keys are strings or
\* null, a dynamic spec naming a string or null
ItemsWellFormed(template) ==
    /\ template.t = "list"
    /\ \A i \in DOMAIN template.v :
          \A item \in {template.v[i]} :
             /\ item.t = "list"
             /\ Len(item.v) = 2
             /\ item.v[1].t \in {"str", "null"}
             /\ is_dynamic(item.v[2]) => NameOf(item.v[2]).t \in {"str", "null"}

\* the configuration has such a template
TemplateWellFormed(doc) ==
    \A found \in {then_getitem(submit_endpoint(doc), Text("query"))} :
        found.exc = "" /\ ItemsWellFormed(found.val)

TemplateOf(doc) == getitem(submit_endpoint(doc).val, Text("query")).val.v

\* the value the pair q[i] gives its key
ValueDecided(q, i) ==
    \E j \in DOMAIN query_params :
       /\ query_params[j][1] = q[i].v[1]
       /\ \A v \in {query_params[j][2]} :
          \A spec \in {q[i].v[2]} :
             IF is_dynamic(spec)
             THEN IF NameOf(spec) = JStr(REPORT_TYPE)
                  THEN v = Text("options")
                  ELSE isdigit(v) /\ int_of_str(v) = {target_year}
             ELSE IF spec.t = "str" THEN v = spec.v
             ELSE IF spec.t = "int" THEN int_of_str(v) = {spec.v}
             ELSE v = py_str(spec)

\* C10: once the target year is resolved and the configuration has a
\* well-formed query template: if a dynamic spec names a value other than
\* report_type and report_year the run has failed with an error after
\* three requests; otherwise the parameters have exactly the template's
\* keys, one entry each, and the last pair of each key decides its value:
\* "options", the target year in decimal, or the literal's string.
C10_QueryParameters ==
    (target_year # 0 /\ TemplateWellFormed(config)) =>
        \A q \in {TemplateOf(config)} :
            IF \E i \in DOMAIN q :
                  /\ is_dynamic(q[i].v[2])
                  /\ NameOf(q[i].v[2]) \notin {JStr(REPORT_TYPE), JStr(REPORT_YEAR)}
            THEN /\ pc = "done"
                 /\ exit_code = {1}
                 /\ Len(requests) = 3
                 /\ StartsWith(stderr[Len(stderr)].text, Text("Error: "))
                 /\ query_params = <<>>
            ELSE /\ {query_params[j][1] : j \in DOMAIN query_params}
                        = {q[i].v[1] : i \in DOMAIN q}
                 /\ \A j, l \in DOMAIN query_params :
                       query_params[j][1] = query_params[l][1] => j = l
                 /\ \A i \in DOMAIN q :
                       (\A j \in DOMAIN q : j > i => q[j].v[1] # q[i].v[1])
                          => ValueDecided(q, i)

\* a template whose first pair is resolved from the target year and whose
\* second pair names an unknown value made the run fail before the report
\* list was requested
C10_Witness ==
    /\ target_year # 0
    /\ TemplateWellFormed(config)
    /\ LET q == TemplateOf(config) IN
       /\ Len(q) = 2
       /\ is_dynamic(q[1].v[2]) /\ NameOf(q[1].v[2]) = JStr(REPORT_YEAR)
       /\ is_dynamic(q[2].v[2])
       /\ NameOf(q[2].v[2]) \notin {JStr(REPORT_TYPE), JStr(REPORT_YEAR)}
    /\ pc = "done"
    /\ exit_code = {1}
    /\ Len(requests) = 3

====
